---- MODULE Spec2Model ----
(***************************************************************************)
(* Model of the document-comparer core (backend/document_comparer):        *)
(*   - the heading path resolver (graph_builder.py),                       *)
(*   - the optimal matcher (optimal_assignment.py / text_matcher.py),      *)
(*   - the junk-insensitive opcode report (text_matcher.py),               *)
(*   - the split / merge / report pipeline of TextMatcher,                 *)
(*   - the comparison job and its progress store (routers/compare.py,      *)
(*     internal/notifier.py, internal/temp_storage.py),                    *)
(*   - the record merge strategies (merge_strategies.py).                  *)
(* Python strings are modelled as sequences of one-character strings, so   *)
(* that comparison, slicing and stripping are computed, not assumed.       *)
(***************************************************************************)
EXTENDS Integers, Sequences, FiniteSets, TLC

VARIABLES
    \* ---- heading path resolver (GraphBuilder)
    hpc,            \* "new" -> "built" -> "resolved"
    sequence,       \* the heading values handed to GraphBuilder(sequence)
    graph,          \* self.graph: position of an element -> its neighbours
    root_elements,  \* self.root_elements
    best_path,      \* result of find_best_path_in_sequence
    expansions,     \* the positions find_larger_neighbours expanded, in order
    max_depth,      \* the deepest nesting of find_larger_neighbours calls
    \* ---- optimal matcher (compute_optimal_matches on a score matrix)
    mpc,            \* "new" -> "done"
    score_matrix,   \* [nrows, ncols, at]: the m x n matrix of scores
    m_threshold,    \* ratio_threshold handed to compute_optimal_matches
    row_col,        \* the (row, column) pairs linear_sum_assignment returned
    optimal_matches, \* the returned list of (i, j, score)
    \* ---- opcode report of one pair of texts (TextMatcher._get_report)
    dpc,            \* "new" -> "done"
    d_left,         \* text_left
    d_right,        \* text_right
    d_report,       \* the (tag, left subtext, right subtext) entries reported
    d_changed,      \* the pair's changed flag
    \* ---- one TextMatcher and its generate_comparison call
    cpc,                    \* "new" -> "done" | "raised"
    given_left,             \* the left paragraphs the matcher was built with
    given_right,            \* the right paragraphs the matcher was built with
    self_texts_left,        \* self.texts_left
    self_texts_right,       \* self.texts_right
    self_ratio_threshold,   \* self.ratio_threshold
    self_length_threshold,  \* self.length_threshold
    comparison_obj,         \* the returned records
    phases,                 \* the phases generate_comparison executed, in order
    \* ---- one comparison job (run_comparison_task) and the store keys of its task id
    jpc,            \* position of the background task
    pages_left,     \* pages the left document's extraction loops over
    pages_right,    \* pages the right document's extraction loops over
    max_loop_length, \* max_loop_length of the merge loop
    progress_key,   \* store key progress:{task_id}: <<>> when absent, else <<value>>
    status_key,     \* store key status:{task_id}
    result_key,     \* store key result:{task_id}
    written,        \* every percent value written to the progress key, in order
    raised_by,      \* the origins of the exceptions raised during the job
    escaped,        \* an exception left run_comparison_task
    runs,           \* number of times compare_documents was entered
    last_answer,    \* the last answer of get_task_result
    poll,           \* <<>>, or <<the progress key a get_task_progress in flight has read>>
    last_progress,  \* <<>>, or <<what the last get_task_progress answered>>
    late_answer,    \* "none" until a get_task_progress answers "completed"; the answer of get_task_result after it
    \* ---- the final matching pass of generate_comparison on reconciled lists
    rpc,            \* "new" -> "done"
    final_left,     \* self.texts_left when the pass starts
    final_right,    \* self.texts_right when the pass starts
    final_threshold, \* self.ratio_threshold
    final_matches,  \* optimal_matches
    final_records,  \* comparison_obj
    \* ---- the record merge strategies applied to one list of records
    gpc,            \* "new" -> "merged" or "joined"
    g_matches,      \* the records given
    g_condition,    \* the name of the predicate given to merge_matches_on_condition
    g_merged,       \* what merge_matches_on_condition returned
    g_passes,       \* the passes join_optimize_paragraph_matches ran, in order
    g_joined,       \* what join_optimize_paragraph_matches returned
    \* ---- splitting at sentence boundaries
    spc,            \* "positions" -> "aligned", or "pair" -> "split"
    s_arr,          \* arr given to get_outer_positions
    s_left,         \* left
    s_right,        \* right
    s_outer,        \* <<>>, or <<the positions get_outer_positions returned>>
    s_text_left,    \* text_left given to split_combined_text
    s_text_right,   \* text_right
    s_length_threshold, \* length_threshold
    s_split,        \* the segments returned and the cut positions used
    \* ---- the merge phase (update_try_merge) on its own
    tpc,            \* "new" -> "merged" or "raised"
    t_left,         \* self.texts_left when the phase starts
    t_right,        \* self.texts_right when the phase starts
    t_swapped,      \* the right document is the one with more units
    t_threshold,    \* self.ratio_threshold
    t_result,       \* the lists the phase leaves and the merges it did, in order
    \* ---- ParagraphMerger.merge_paragraphs
    ppc,            \* "loop" -> "done", "raised" or "looping"
    p_left,         \* texts_left, each unit by its key
    p_right,        \* texts_right
    p_matched,      \* matched_paragraphs
    p_st,           \* the fields of the merger and the two stacks
    p_last,         \* <<>>, or <<the last iteration of the loop>>
    p_seen          \* the states the loop has been in

headingVars == <<hpc, sequence, graph, root_elements, best_path, expansions, max_depth>>
matcherVars == <<mpc, score_matrix, m_threshold, row_col, optimal_matches>>
differVars == <<dpc, d_left, d_right, d_report, d_changed>>
compareVars == <<cpc, given_left, given_right, self_texts_left, self_texts_right,
                 self_ratio_threshold, self_length_threshold, comparison_obj, phases>>
jobVars == <<jpc, pages_left, pages_right, max_loop_length, progress_key, status_key,
             result_key, written, raised_by, escaped, runs, last_answer, poll,
             last_progress, late_answer>>
recordVars == <<rpc, final_left, final_right, final_threshold, final_matches, final_records>>
mergeVars == <<gpc, g_matches, g_condition, g_merged, g_passes, g_joined>>
splitVars == <<spc, s_arr, s_left, s_right, s_outer, s_text_left, s_text_right,
               s_length_threshold, s_split>>
tryVars == <<tpc, t_left, t_right, t_swapped, t_threshold, t_result>>
paraVars == <<ppc, p_left, p_right, p_matched, p_st, p_last, p_seen>>
vars == <<headingVars, matcherVars, differVars, compareVars, jobVars, recordVars, mergeVars, splitVars, tryVars, paraVars>>

(***************************************************************************)
(* Bounds                                                                  *)
(***************************************************************************)
MaxSeqLen == 5
MaxTieLen == 6
MaxDim == 2
MaxUnits == 2
MaxPages == 2
MaxLoop == 3
MaxMatches == 3
MaxArr == 3
MaxPos == 4
MaxSentences == 2
MaxMergeUnits == 3
MaxPartners == 2
MaxParaUnits == 3

(***************************************************************************)
(* Generic helpers                                                         *)
(***************************************************************************)
None == -1

Min(S) == CHOOSE x \in S : \A y \in S : x <= y

SeqsUpTo(S, n) == UNION { [1..k -> S] : k \in 0..n }

\* code point of a character, as Python's str comparison uses it
Ord(c) ==
    CASE c = " " -> 32 [] c = "*" -> 42 [] c = "-" -> 45 [] c = "." -> 46
      [] c = "0" -> 48 [] c = "1" -> 49 [] c = "2" -> 50 [] c = "3" -> 51
      [] c = "9" -> 57 [] c = "_" -> 95 [] c = "a" -> 97 [] c = "b" -> 98
      [] c = "c" -> 99 [] c = "x" -> 120 [] c = "|" -> 124

\* Python's  a < b  on two str values
RECURSIVE StrLess(_, _)
StrLess(a, b) ==
    IF b = <<>> THEN FALSE
    ELSE IF a = <<>> THEN TRUE
    ELSE IF Ord(Head(a)) # Ord(Head(b)) THEN Ord(Head(a)) < Ord(Head(b))
    ELSE StrLess(Tail(a), Tail(b))

RECURSIVE SumOver(_, _)
SumOver(S, f) ==
    IF S = {} THEN 0
    ELSE LET x == CHOOSE y \in S : TRUE IN f[x] + SumOver(S \ {x}, f)

RECURSIVE SortedSeq(_)
SortedSeq(S) ==
    IF S = {} THEN <<>> ELSE <<Min(S)>> \o SortedSeq(S \ {Min(S)})

Injections(A, B) == { f \in [A -> B] : \A x, y \in A : x # y => f[x] # f[y] }

Max(S) == CHOOSE x \in S : \A y \in S : y <= x

(***************************************************************************)
(* Python str operations on sequences of characters                        *)
(***************************************************************************)
\* s[i] for a 0-based index inside the string
At(s, i) == s[i + 1]

\* a slice bound as Python normalises it: negative counts from the end, then
\* clamped into 0..len
SliceBound(n, i) ==
    LET k == IF i < 0 THEN i + n ELSE i
    IN  IF k < 0 THEN 0 ELSE IF k > n THEN n ELSE k

\* s[i:j]
Slice(s, i, j) ==
    LET lo == SliceBound(Len(s), i)
        hi == SliceBound(Len(s), j)
    IN  IF hi <= lo THEN <<>> ELSE SubSeq(s, lo + 1, hi)

\* s[i:]
SliceFrom(s, i) == Slice(s, i, Len(s))

IsSpace(c) == c = " "

\* s.strip()
RECURSIVE LStrip(_)
LStrip(s) == IF s # <<>> /\ IsSpace(Head(s)) THEN LStrip(Tail(s)) ELSE s

RECURSIVE RStrip(_)
RStrip(s) ==
    IF s # <<>> /\ IsSpace(s[Len(s)]) THEN RStrip(SubSeq(s, 1, Len(s) - 1)) ELSE s

Strip(s) == RStrip(LStrip(s))

\* a + ' ' + b
JoinSpace(a, b) == a \o <<" ">> \o b

(***************************************************************************)
(* rapidfuzz.fuzz.ratio: the normalised Indel similarity, 100 * 2 * LCS /  *)
(* (len(a) + len(b)), and 100 for two empty strings.  Scores are kept as   *)
(* integers in units of 1/10000 of a point.                                *)
(***************************************************************************)
ScoreUnit == 10000

\* one row of the longest-common-subsequence table: row[j+1] = LCS(a[:i], b[:j]).
\* Each new row and each new entry is bound as a value before the recursion
\* goes on, so that no chain of unevaluated arguments builds up.
RECURSIVE LcsRow(_, _, _, _, _)
LcsRow(c, b, prev, j, row) ==
    IF j > Len(b) THEN row
    ELSE CHOOSE r \in { LcsRow(c, b, prev, j + 1, next) :
                          next \in { Append(row, IF c = b[j] THEN prev[j] + 1
                                                 ELSE IF prev[j + 1] >= row[j]
                                                      THEN prev[j + 1] ELSE row[j]) } } :
             TRUE

RECURSIVE LcsRows(_, _, _, _)
LcsRows(a, b, i, prev) ==
    IF i > Len(a) THEN prev[Len(b) + 1]
    ELSE CHOOSE r \in { LcsRows(a, b, i + 1, next) :
                          next \in { LcsRow(a[i], b, prev, 1, <<0>>) } } : TRUE

Lcs(a, b) == LcsRows(a, b, 1, [j \in 1..(Len(b) + 1) |-> 0])

fuzz_ratio(a, b) ==
    IF Len(a) + Len(b) = 0 THEN 100 * ScoreUnit
    ELSE (2 * Lcs(a, b) * 100 * ScoreUnit) \div (Len(a) + Len(b))

(***************************************************************************)
(* difflib.SequenceMatcher(isjunk, a, b).get_opcodes(), for sequences      *)
(* shorter than the 200 elements at which the popularity heuristic starts  *)
(***************************************************************************)
\* length of the junk-free common run that ends at a[i], b[j] inside the
\* window (the j2len table of find_longest_match)
RECURSIVE RunLen(_, _, _, _, _, _, _)
RunLen(a, b, junk, alo, blo, i, j) ==
    IF i < alo \/ j < blo THEN 0
    ELSE IF At(a, i) = At(b, j) /\ At(b, j) \notin junk
         THEN 1 + RunLen(a, b, junk, alo, blo, i - 1, j - 1)
         ELSE 0

\* the second pair of loops of find_longest_match: take up equal junk on
\* each side of the match
RECURSIVE ExtendBack(_, _, _, _, _, _, _)
ExtendBack(a, b, isj, alo, blo, m, wantjunk) ==
    IF /\ m.i > alo /\ m.j > blo
       /\ ((At(b, m.j - 1) \in isj) = wantjunk)
       /\ At(a, m.i - 1) = At(b, m.j - 1)
    THEN ExtendBack(a, b, isj, alo, blo, [i |-> m.i - 1, j |-> m.j - 1, k |-> m.k + 1],
                    wantjunk)
    ELSE m

RECURSIVE ExtendFwd(_, _, _, _, _, _, _)
ExtendFwd(a, b, isj, ahi, bhi, m, wantjunk) ==
    IF /\ m.i + m.k < ahi /\ m.j + m.k < bhi
       /\ ((At(b, m.j + m.k) \in isj) = wantjunk)
       /\ At(a, m.i + m.k) = At(b, m.j + m.k)
    THEN ExtendFwd(a, b, isj, ahi, bhi, [m EXCEPT !.k = m.k + 1], wantjunk)
    ELSE m

find_longest_match(a, b, junk, alo, ahi, blo, bhi) ==
    LET ends == { p \in (alo..(ahi - 1)) \X (blo..(bhi - 1)) :
                    RunLen(a, b, junk, alo, blo, p[1], p[2]) > 0 }
        best ==
            IF ends = {} THEN [i |-> alo, j |-> blo, k |-> 0]
            ELSE LET size == Max({ RunLen(a, b, junk, alo, blo, p[1], p[2]) : p \in ends })
                     top  == { p \in ends : RunLen(a, b, junk, alo, blo, p[1], p[2]) = size }
                     ei   == Min({ p[1] : p \in top })
                     ej   == Min({ p[2] : p \in { q \in top : q[1] = ei } })
                 IN  [i |-> ei - size + 1, j |-> ej - size + 1, k |-> size]
        e1 == ExtendBack(a, b, junk, alo, blo, best, FALSE)
        e2 == ExtendFwd(a, b, junk, ahi, bhi, e1, FALSE)
        e3 == ExtendBack(a, b, junk, alo, blo, e2, TRUE)
    IN  ExtendFwd(a, b, junk, ahi, bhi, e3, TRUE)

\* the blocks get_matching_blocks collects, sorted
RECURSIVE MatchingBlocks(_, _, _, _, _, _, _)
RECURSIVE BlocksAround(_, _, _, _, _, _, _, _)
\* the blocks left of the longest match m, m itself, the blocks right of it
BlocksAround(a, b, junk, alo, ahi, blo, bhi, m) ==
    IF m.k = 0 THEN <<>>
    ELSE (IF alo < m.i /\ blo < m.j
          THEN MatchingBlocks(a, b, junk, alo, m.i, blo, m.j) ELSE <<>>)
         \o <<m>>
         \o (IF m.i + m.k < ahi /\ m.j + m.k < bhi
             THEN MatchingBlocks(a, b, junk, m.i + m.k, ahi, m.j + m.k, bhi)
             ELSE <<>>)

MatchingBlocks(a, b, junk, alo, ahi, blo, bhi) ==
    BlocksAround(a, b, junk, alo, ahi, blo, bhi,
                 find_longest_match(a, b, junk, alo, ahi, blo, bhi))

\* adjacent blocks collapsed into one
RECURSIVE Collapse(_, _, _, _)
Collapse(blocks, n, cur, out) ==
    IF n > Len(blocks)
    THEN IF cur.k # 0 THEN Append(out, cur) ELSE out
    ELSE IF cur.i + cur.k = blocks[n].i /\ cur.j + cur.k = blocks[n].j
         THEN Collapse(blocks, n + 1, [cur EXCEPT !.k = cur.k + blocks[n].k], out)
         ELSE Collapse(blocks, n + 1, blocks[n],
                       IF cur.k # 0 THEN Append(out, cur) ELSE out)

get_matching_blocks(a, b, junk) ==
    Append(Collapse(MatchingBlocks(a, b, junk, 0, Len(a), 0, Len(b)), 1,
                    [i |-> 0, j |-> 0, k |-> 0], <<>>),
           [i |-> Len(a), j |-> Len(b), k |-> 0])

Opcode(tag, i1, i2, j1, j2) == [tag |-> tag, i1 |-> i1, i2 |-> i2, j1 |-> j1, j2 |-> j2]

RECURSIVE OpcodesFrom(_, _, _, _, _)
OpcodesFrom(blocks, n, i, j, answer) ==
    IF n > Len(blocks) THEN answer
    ELSE LET m    == blocks[n]
             tag  == IF i < m.i /\ j < m.j THEN "replace"
                     ELSE IF i < m.i THEN "delete"
                     ELSE IF j < m.j THEN "insert"
                     ELSE ""
             gap  == IF tag # "" THEN Append(answer, Opcode(tag, i, m.i, j, m.j))
                     ELSE answer
             both == IF m.k # 0
                     THEN Append(gap, Opcode("equal", m.i, m.i + m.k, m.j, m.j + m.k))
                     ELSE gap
         IN  OpcodesFrom(blocks, n + 1, m.i + m.k, m.j + m.k, both)

\* TextMatcher.get_edit_operations(text_left, text_right, junk); junk is the
\* set of characters the isjunk function accepts ({} for None)
get_edit_operations(text_left, text_right, junk) ==
    OpcodesFrom(get_matching_blocks(text_left, text_right, junk), 1, 0, 0, <<>>)

(***************************************************************************)
(* Junk-insensitive change detection: TextMatcher.is_changed, _get_report  *)
(***************************************************************************)
\* the characters JUNK_PATTERN = [-|_|\*\s] matches: inside the character
\* class the bar is a literal character
JUNK_PATTERN == {"-", "|", "_", "*", " "}
\* JUNK_PATTERN.sub('', subtext)
JunkSub(subtext) == SelectSeq(subtext, LAMBDA c : c \notin JUNK_PATTERN)

is_changed(tag, subtext_left, subtext_right) ==
    IF tag = "equal" THEN FALSE
    ELSE JunkSub(subtext_left) # JunkSub(subtext_right)

\* _json_formatter
json_formatter(tag, sub_left, sub_right, sub_changed) ==
    [tag |-> tag, sub_left |-> sub_left, sub_right |-> sub_right]

\* the loop of _get_report over the opcodes
RECURSIVE GetReportLoop(_, _, _, _, _)
GetReportLoop(text_left, text_right, opcodes, n, acc) ==
    IF n > Len(opcodes) THEN acc
    ELSE LET op        == opcodes[n]
             sub_left  == Slice(text_left, op.i1, op.i2)
             sub_right == Slice(text_right, op.j1, op.j2)
         IN  IF Strip(sub_left) = <<>> /\ Strip(sub_right) = <<>>
             THEN GetReportLoop(text_left, text_right, opcodes, n + 1, acc)
             ELSE LET sub_changed == is_changed(op.tag, sub_left, sub_right)
                      tag == IF op.tag # "equal" /\ ~sub_changed THEN "equal" ELSE op.tag
                  IN  GetReportLoop(text_left, text_right, opcodes, n + 1,
                          [report  |-> Append(acc.report,
                                              json_formatter(tag, sub_left, sub_right,
                                                             sub_changed)),
                           changed |-> acc.changed \/ sub_changed])

\* _get_report with the JSON formatter (get_match_json_report); the opcodes
\* are computed with the blank as junk
get_report(text_left, text_right) ==
    GetReportLoop(text_left, text_right,
                  get_edit_operations(text_left, text_right, {" "}), 1,
                  [report |-> <<>>, changed |-> FALSE])

(***************************************************************************)
(* Optimal matcher: optimal_assignment.py (and its copy in TextMatcher)    *)
(***************************************************************************)
RowsOf(M) == 0..(M.nrows - 1)
ColsOf(M) == 0..(M.ncols - 1)

\* the complete assignments of a rectangular matrix: min(m, n) pairs, no row
\* and no column used twice
Assignments(M) ==
    IF M.nrows <= M.ncols
    THEN { { <<i, f[i]>> : i \in RowsOf(M) } : f \in Injections(RowsOf(M), ColsOf(M)) }
    ELSE { { <<f[j], j>> : j \in ColsOf(M) } : f \in Injections(ColsOf(M), RowsOf(M)) }

Total(M, a) == SumOver(a, M.at)

\* scipy.optimize.linear_sum_assignment(score_matrix, maximize=True): some
\* complete assignment of maximum total; which one among ties is the solver's
\* choice, so the result is the set of the possible answers
find_optimal_matches_minimize(M) ==
    { a \in Assignments(M) : \A b \in Assignments(M) : Total(M, a) <= Total(M, b) }
find_optimal_matches(M) ==
    { a \in Assignments(M) : \A b \in Assignments(M) : Total(M, b) <= Total(M, a) }

\* zip(row_idx, col_idx): the pairs in increasing row order
ZipRowCol(a) ==
    LET rows == SortedSeq({ p[1] : p \in a })
    IN  [k \in 1..Len(rows) |-> CHOOSE p \in a : p[1] = rows[k]]

\* the list comprehension of compute_optimal_matches: the assigned pairs whose
\* score exceeds the threshold, each with its score
above_threshold_or_equal(M, a, ratio_threshold) ==
    LET pairs == ZipRowCol(a)
    IN  SelectSeq([k \in 1..Len(pairs) |->
                      [i |-> pairs[k][1], j |-> pairs[k][2], score |-> M.at[pairs[k]]]],
                  LAMBDA t : t.score >= ratio_threshold)
above_threshold(M, a, ratio_threshold) ==
    LET pairs == ZipRowCol(a)
    IN  SelectSeq([k \in 1..Len(pairs) |->
                      [i |-> pairs[k][1], j |-> pairs[k][2], score |-> M.at[pairs[k]]]],
                  LAMBDA t : t.score > ratio_threshold)

\* every list compute_optimal_matches can return for a score matrix
compute_optimal_matches(M, ratio_threshold) ==
    { above_threshold(M, a, ratio_threshold) : a \in find_optimal_matches(M) }

(***************************************************************************)
(* Segment pipeline: TextMatcher.generate_comparison and its phases        *)
(***************************************************************************)
Paragraph(text, id, payload) == [text |-> text, id |-> id, payload |-> payload]

\* TextMatcher.calculate_score_matrix
calculate_score_matrix(texts_left, texts_right) ==
    [nrows |-> Len(texts_left), ncols |-> Len(texts_right),
     at    |-> [p \in (0..(Len(texts_left) - 1)) \X (0..(Len(texts_right) - 1)) |->
                   fuzz_ratio(texts_left[p[1] + 1].text, texts_right[p[2] + 1].text)]]

\* match_positions.index(current_position)
IndexOf(match_positions, x) ==
    (CHOOSE k \in 1..Len(match_positions) :
        /\ match_positions[k] = x
        /\ \A h \in 1..(k - 1) : match_positions[h] # x) - 1

\* the while loop of find_closest_match
RECURSIVE FindClosestLoop(_, _, _, _)
FindClosestLoop(match_positions, current_position, step, limit_position) ==
    IF \E k \in 1..Len(match_positions) : match_positions[k] = current_position
    THEN IndexOf(match_positions, current_position)
    ELSE LET moved == current_position + step
         IN  IF (step < 0 /\ moved < limit_position) \/ (step > 0 /\ moved > limit_position)
             THEN -1
             ELSE FindClosestLoop(match_positions, moved, step, limit_position)

\* find_closest_match: min() and max() of an empty list raise ValueError
find_closest_match(match_positions, text_position, step) ==
    IF step = 0 THEN [raised |-> FALSE, index |-> -1]
    ELSE IF match_positions = <<>> THEN [raised |-> TRUE, index |-> -1]
    ELSE LET positions == { match_positions[k] : k \in 1..Len(match_positions) }
             limit_position == IF step < 0 THEN Min(positions) ELSE Max(positions)
         IN  [raised |-> FALSE,
              index  |-> FindClosestLoop(match_positions, text_position, step,
                                         limit_position)]

\* split_into_sentences returns one value, the list of the sentences
\* (utils.py); split_combined_text unpacks it into two names and appends to
\* the second: ValueError unless the text has exactly two sentences, and
\* then the second name is a str, which has no append (AttributeError).
\* Every call of split_combined_text therefore raises in its first lines.
split_combined_text(text_left, text_right, opcodes, length_threshold) ==
    [raised |-> TRUE, segments_left |-> <<>>, segments_right |-> <<>>]

\* _update_segment: texts[:pos] + new_segments + texts[pos + 1:]
update_segment(texts, pos, new_segments) ==
    Slice(texts, 0, pos) \o new_segments \o SliceFrom(texts, pos + 1)

\* the reverse loop of update_texts_combined over the matches: SplitStep is
\* the part of the body after the call of split_combined_text, whose result
\* is s
RECURSIVE SplitLoop(_, _, _, _, _, _, _)
RECURSIVE SplitStep(_, _, _, _, _, _, _, _)
SplitStep(texts_left, texts_right, matched_left, matched_right, matches, pos, length_threshold, s) ==
    IF s.raised
    THEN [raised |-> TRUE, texts_left |-> texts_left, texts_right |-> texts_right]
    ELSE SplitLoop(update_segment(texts_left, matches[pos].i, s.segments_left),
                   update_segment(texts_right, matches[pos].j, s.segments_right),
                   matched_left, matched_right, matches, pos - 1, length_threshold)

SplitLoop(texts_left, texts_right, matched_left, matched_right, matches, pos, length_threshold) ==
    IF pos = 0 THEN [raised |-> FALSE, texts_left |-> texts_left, texts_right |-> texts_right]
    ELSE SplitStep(texts_left, texts_right, matched_left, matched_right, matches, pos,
                   length_threshold,
                   split_combined_text(
                       matched_left[matches[pos].i + 1], matched_right[matches[pos].j + 1],
                       get_edit_operations(matched_left[matches[pos].i + 1].text,
                                           matched_right[matches[pos].j + 1].text, {}),
                       length_threshold))

NotBlank(t) == Strip(t.text) # <<>>

\* the end of update_texts_combined: the texts that are not empty
RemoveEmpty(r) ==
    IF r.raised THEN r
    ELSE [raised      |-> FALSE,
          texts_left  |-> SelectSeq(r.texts_left, NotBlank),
          texts_right |-> SelectSeq(r.texts_right, NotBlank)]

\* update_texts_combined: every outcome the solver's choice allows
update_texts_combined(texts_left, texts_right, ratio_threshold, length_threshold) ==
    { RemoveEmpty(SplitLoop(texts_left, texts_right, texts_left, texts_right, matches,
                            Len(matches), length_threshold)) :
      matches \in compute_optimal_matches(calculate_score_matrix(texts_left, texts_right),
                                          ratio_threshold) }

\* match[merge_index] / match[opposing_index]: index 1 is the left paragraph
\* of the match, index 3 the right one; both are the objects of the lists
MatchPos(m, index) == IF index = 1 THEN m.i ELSE m.j

\* merged_text of _attempt_merge
MergedText(step, neighbour_text, text) ==
    IF step = -1 THEN JoinSpace(neighbour_text, text) ELSE JoinSpace(text, neighbour_text)

\* one pass of the loop over step_options in _attempt_merge; best holds
\* best_diff and best_merge
TryStep(step, neighbor_idx, best, text_obj, matches, merge_index, opposing_index, merge_texts, oppose_texts) ==
    IF neighbor_idx = -1 THEN best
    ELSE IF fuzz_ratio(MergedText(step,
                                  merge_texts[MatchPos(matches[neighbor_idx + 1],
                                                       merge_index) + 1].text,
                                  text_obj.text),
                       oppose_texts[MatchPos(matches[neighbor_idx + 1],
                                             opposing_index) + 1].text)
            - matches[neighbor_idx + 1].score > best.best_diff
    THEN [best_diff |-> fuzz_ratio(MergedText(step,
                                              merge_texts[MatchPos(matches[neighbor_idx + 1],
                                                                   merge_index) + 1].text,
                                              text_obj.text),
                                   oppose_texts[MatchPos(matches[neighbor_idx + 1],
                                                         opposing_index) + 1].text)
                        - matches[neighbor_idx + 1].score,
          neighbor_idx |-> neighbor_idx, step |-> step]
    ELSE best

\* the end of _attempt_merge: the text joins the neighbour of the best merge
ApplyMerge(best, text_obj, matches, merge_index, merge_texts) ==
    IF best.best_diff > 0
    THEN [raised |-> FALSE, merged |-> TRUE, neighbor_idx |-> best.neighbor_idx,
          texts  |-> [merge_texts EXCEPT
                        ![MatchPos(matches[best.neighbor_idx + 1], merge_index) + 1].text =
                            MergedText(best.step, @, text_obj.text)]]
    ELSE [raised |-> FALSE, merged |-> FALSE, neighbor_idx |-> -1, texts |-> merge_texts]

\* _attempt_merge for one unmatched text; merge_texts is the list the text
\* and its neighbours belong to, oppose_texts the list of the other side
attempt_merge(idx, text_obj, match_positions, matches, merge_index, opposing_index, merge_texts, oppose_texts) ==
    IF find_closest_match(match_positions, idx, -1).raised
    THEN [raised |-> TRUE, merged |-> FALSE, neighbor_idx |-> -1, texts |-> merge_texts]
    ELSE ApplyMerge(
             TryStep(1, find_closest_match(match_positions, idx, 1).index,
                     TryStep(-1, find_closest_match(match_positions, idx, -1).index,
                             [best_diff |-> 0, neighbor_idx |-> -1, step |-> 0],
                             text_obj, matches, merge_index, opposing_index, merge_texts,
                             oppose_texts),
                     text_obj, matches, merge_index, opposing_index, merge_texts,
                     oppose_texts),
             text_obj, matches, merge_index, merge_texts)

\* what one merge did: the unit merged, the text of the neighbour before and
\* after, and the text of the neighbour's partner at that moment
MergeRecord(idx, m, merge_index, opposing_index, merge_texts, oppose_texts, r) ==
    [side    |-> IF merge_index = 1 THEN "left" ELSE "right",
     idx     |-> idx,
     into    |-> MatchPos(m, merge_index),
     before  |-> merge_texts[MatchPos(m, merge_index) + 1].text,
     after   |-> r.texts[MatchPos(m, merge_index) + 1].text,
     partner |-> oppose_texts[MatchPos(m, opposing_index) + 1].text]

\* one of the two loops of update_try_merge over the unmatched indices;
\* TryMergeStep is the part of the body after the call of _attempt_merge,
\* whose result is r; merges lists the merges done, in order
RECURSIVE TryMergeLoop(_, _, _, _, _, _, _, _, _, _)
RECURSIVE TryMergeStep(_, _, _, _, _, _, _, _, _, _, _)
TryMergeStep(indices, n, match_positions, matches, merge_index, opposing_index, merge_texts, oppose_texts, indices_to_remove, merges, r) ==
    IF r.raised
    THEN [raised |-> TRUE, texts |-> merge_texts, indices_to_remove |-> indices_to_remove,
          merges |-> merges]
    ELSE TryMergeLoop(indices, n + 1, match_positions, matches, merge_index,
                      opposing_index, r.texts, oppose_texts,
                      IF r.merged THEN indices_to_remove \cup {indices[n]}
                      ELSE indices_to_remove,
                      IF r.merged
                      THEN Append(merges,
                                  MergeRecord(indices[n], matches[r.neighbor_idx + 1],
                                              merge_index, opposing_index, merge_texts,
                                              oppose_texts, r))
                      ELSE merges)

TryMergeLoop(indices, n, match_positions, matches, merge_index, opposing_index, merge_texts, oppose_texts, indices_to_remove, merges) ==
    IF n > Len(indices)
    THEN [raised |-> FALSE, texts |-> merge_texts, indices_to_remove |-> indices_to_remove,
          merges |-> merges]
    ELSE TryMergeStep(indices, n, match_positions, matches, merge_index, opposing_index,
                      merge_texts, oppose_texts, indices_to_remove, merges,
                      attempt_merge(indices[n], merge_texts[indices[n] + 1],
                                    match_positions, matches, merge_index, opposing_index,
                                    merge_texts, oppose_texts))

\* texts.pop(idx) for every idx of the set, highest first
PopAll(texts, indices_to_remove) ==
    LET keep == SortedSeq((0..(Len(texts) - 1)) \ indices_to_remove)
    IN  [k \in 1..Len(keep) |-> texts[keep[k] + 1]]

\* list(range(len(texts))) without the positions of the matches
UnmatchedIndices_all(texts, matched) == SortedSeq(0..(Len(texts) - 1))
UnmatchedIndices(texts, matched) == SortedSeq((0..(Len(texts) - 1)) \ matched)

\* the loop of update_try_merge over the left texts, the one over the right
\* texts (which reads the left texts as the first loop left them), the pops
MergeLeft(texts_left, texts_right, matches) ==
    TryMergeLoop(UnmatchedIndices(texts_left, { matches[k].i : k \in 1..Len(matches) }),
                 1, [k \in 1..Len(matches) |-> matches[k].i], matches, 1, 3,
                 texts_left, texts_right, {}, <<>>)

MergeRight(merged_left, texts_right, matches) ==
    TryMergeLoop(UnmatchedIndices(texts_right, { matches[k].j : k \in 1..Len(matches) }),
                 1, [k \in 1..Len(matches) |-> matches[k].j], matches, 3, 1,
                 texts_right, merged_left, {}, <<>>)

PopMerged(texts_left, texts_right, l, r) ==
    IF l.raised \/ r.raised
    THEN [raised |-> TRUE, texts_left |-> texts_left, texts_right |-> texts_right,
          merges |-> <<>>]
    ELSE [raised      |-> FALSE,
          texts_left  |-> PopAll(l.texts, l.indices_to_remove),
          texts_right |-> PopAll(r.texts, r.indices_to_remove),
          merges      |-> l.merges \o r.merges]

AfterMergeLeft(texts_left, texts_right, matches, l) ==
    PopMerged(texts_left, texts_right, l, MergeRight(l.texts, texts_right, matches))

\* update_try_merge for one choice of the solver
try_merge_with(texts_left, texts_right, matches) ==
    AfterMergeLeft(texts_left, texts_right, matches,
                   MergeLeft(texts_left, texts_right, matches))

update_try_merge(texts_left, texts_right, ratio_threshold) ==
    { try_merge_with(texts_left, texts_right, matches) :
      matches \in compute_optimal_matches(calculate_score_matrix(texts_left, texts_right),
                                          ratio_threshold) }

\* round(ratio / 100, 4), in units of 1/ScoreUnit
Round4(ratio) == (ratio + 50) \div 100

\* the three loops of generate_comparison that build the records
MatchedRecord(m, text_left, text_right, changed) ==
    [ratio |-> IF changed THEN Round4(m.score) ELSE ScoreUnit,
     type  |-> IF changed THEN "changed" ELSE "same",
     text_left_id |-> text_left.id, text_left |-> text_left.text,
     text_right_id |-> text_right.id, text_right |-> text_right.text,
     position |-> m.i, position_secondary |-> m.j]

MatchedItem(m, texts_left, texts_right) ==
    MatchedRecord(m, texts_left[m.i + 1], texts_right[m.j + 1],
                  get_report(texts_left[m.i + 1].text, texts_right[m.j + 1].text).changed)

RemovedItem(idx, texts_left) ==
    [ratio |-> 0, type |-> "removed",
     text_left_id |-> texts_left[idx + 1].id, text_left |-> texts_left[idx + 1].text,
     text_right_id |-> None, text_right |-> <<>>,
     position |-> idx, position_secondary |-> 0]

NewItem(idx, texts_right, matches) ==
    LET match_positions_right == [k \in 1..Len(matches) |-> matches[k].j]
        closest_match_index ==
            IF match_positions_right # <<>>
            THEN find_closest_match(match_positions_right, idx, -1).index ELSE -1
    IN  [ratio |-> 0, type |-> "new",
         text_left_id |-> None, text_left |-> <<>>,
         text_right_id |-> texts_right[idx + 1].id, text_right |-> texts_right[idx + 1].text,
         position |-> IF closest_match_index # -1
                      THEN matches[closest_match_index + 1].i ELSE 0,
         position_secondary |-> IF closest_match_index # -1
                                THEN matches[closest_match_index + 1].j ELSE 0]

BuildComparison(texts_left, texts_right, matches) ==
    LET removed == UnmatchedIndices(texts_left, { matches[k].i : k \in 1..Len(matches) })
        new     == UnmatchedIndices(texts_right, { matches[k].j : k \in 1..Len(matches) })
    IN  [k \in 1..Len(matches) |-> MatchedItem(matches[k], texts_left, texts_right)]
        \o [k \in 1..Len(removed) |-> RemovedItem(removed[k], texts_left)]
        \o [k \in 1..Len(new) |-> NewItem(new[k], texts_right, matches)]

Raised_unrecorded(r, executed) ==
    [raised |-> TRUE, texts_left |-> r.texts_left, texts_right |-> r.texts_right,
     comparison_obj |-> <<>>, phases |-> <<>>]
Raised(r, executed) ==
    [raised |-> TRUE, texts_left |-> r.texts_left, texts_right |-> r.texts_right,
     comparison_obj |-> <<>>, phases |-> executed]

\* generate_comparison: the split phase twice, the merge phase, the records;
\* an exception of a phase ends the call; phases lists the phases entered
generate_comparison(texts_left, texts_right, ratio_threshold, length_threshold) ==
    UNION { IF s1.raised THEN { Raised(s1, <<"split">>) }
            ELSE UNION { IF s2.raised THEN { Raised(s2, <<"split", "split">>) }
                         ELSE UNION { IF mg.raised
                                      THEN { Raised(mg, <<"split", "split", "merge">>) }
                                      ELSE { [raised |-> FALSE,
                                              texts_left |-> mg.texts_left,
                                              texts_right |-> mg.texts_right,
                                              comparison_obj |->
                                                  BuildComparison(mg.texts_left,
                                                                  mg.texts_right, matches),
                                              phases |->
                                                  <<"split", "split", "merge", "match">>] :
                                             matches \in compute_optimal_matches(
                                                 calculate_score_matrix(mg.texts_left,
                                                                        mg.texts_right),
                                                 ratio_threshold) } :
                                      mg \in update_try_merge(s2.texts_left, s2.texts_right,
                                                              ratio_threshold) } :
                         s2 \in update_texts_combined(s1.texts_left, s1.texts_right,
                                                      ratio_threshold, length_threshold) } :
            s1 \in update_texts_combined(texts_left, texts_right, ratio_threshold,
                                         length_threshold) }

(***************************************************************************)
(* Heading path resolver: graph_builder.py                                 *)
(***************************************************************************)
\* Element(position, value, visited): the visited flag of the shared
\* Element objects is kept as the set of visited positions.
initialize_sequence(seq) ==
    [i \in 1..Len(seq) |-> [position |-> i - 1, value |-> seq[i]]]

\* int(item) with ValueError -> 0, on the digits the model uses
IsDigit(c) == c \in {"0", "1", "2", "3", "9"}

RECURSIVE ParseInt(_, _)
ParseInt(item, acc) ==
    IF item = <<>> THEN acc
    ELSE ParseInt(Tail(item), 10 * acc + (Ord(Head(item)) - 48))

IntOrZero(item) ==
    IF item # <<>> /\ \A i \in 1..Len(item) : IsDigit(item[i])
    THEN ParseInt(item, 0) ELSE 0

\* str.split(sep): the list of pieces between separators
RECURSIVE Split(_, _, _, _)
Split(s, sep, cur, acc) ==
    IF s = <<>> THEN Append(acc, cur)
    ELSE IF Head(s) = sep THEN Split(Tail(s), sep, <<>>, Append(acc, cur))
    ELSE Split(Tail(s), sep, Append(cur, Head(s)), acc)

\* Element.compare_fct: tuple of tuples of ints
compare_fct(x) ==
    LET sections == Split(x, "-", <<>>, <<>>)
    IN  [i \in 1..Len(sections) |->
            LET subsection == Split(sections[i], ".", <<>>, <<>>)
            IN  [j \in 1..Len(subsection) |-> IntOrZero(subsection[j])]]

\* Python's tuple  a < b  on tuples of ints
RECURSIVE IntTupleLess(_, _)
IntTupleLess(a, b) ==
    IF b = <<>> THEN FALSE
    ELSE IF a = <<>> THEN TRUE
    ELSE IF Head(a) # Head(b) THEN Head(a) < Head(b)
    ELSE IntTupleLess(Tail(a), Tail(b))

\* Python's tuple  a < b  on tuples of tuples of ints
RECURSIVE KeyLess(_, _)
KeyLess(a, b) ==
    IF b = <<>> THEN FALSE
    ELSE IF a = <<>> THEN TRUE
    ELSE IF Head(a) # Head(b) THEN IntTupleLess(Head(a), Head(b))
    ELSE KeyLess(Tail(a), Tail(b))

\* Element.__lt__
ElementLess(a, b) == KeyLess(compare_fct(a.value), compare_fct(b.value))

\* the comparison find_larger / find_smaller apply: item.value > element.value
\* compares the two str values themselves
ValueGreater(item, element) == StrLess(element.value, item.value)

find_larger_ge(element, subsequence, start_pos) ==
    LET hits == { i \in 0..(Len(subsequence) - 1) :
                    ~ValueGreater(element, subsequence[i + 1]) /\ i >= start_pos }
    IN  IF hits = {} THEN None ELSE Min(hits)
find_larger(element, subsequence, start_pos) ==
    LET hits == { i \in 0..(Len(subsequence) - 1) :
                    ValueGreater(subsequence[i + 1], element) /\ i >= start_pos }
    IN  IF hits = {} THEN None ELSE Min(hits)

find_smaller_unbounded(root_element, element, subsequence, start_pos) ==
    LET hits == { i \in 0..(Len(subsequence) - 1) :
                    /\ ValueGreater(element, subsequence[i + 1])
                    /\ i >= start_pos }
    IN  IF hits = {} THEN None ELSE Min(hits)
find_smaller(root_element, element, subsequence, start_pos) ==
    LET hits == { i \in 0..(Len(subsequence) - 1) :
                    /\ ValueGreater(subsequence[i + 1], root_element)
                    /\ ValueGreater(element, subsequence[i + 1])
                    /\ i >= start_pos }
    IN  IF hits = {} THEN None ELSE Min(hits)

\* dict union  g | h  (the right operand wins)
DictUnion(g, h) ==
    [k \in DOMAIN g \cup DOMAIN h |-> IF k \in DOMAIN h THEN h[k] ELSE g[k]]

EmptyDict == <<>>

\* the while loop of find_larger_neighbours
RECURSIVE Staircase(_, _, _, _, _)
Staircase(element, current_neighbour, subsequence, current_position, neighbours) ==
    IF current_position < Len(subsequence)
    THEN LET pos == find_smaller(element, current_neighbour, subsequence, current_position)
         IN  IF pos = None THEN neighbours
             ELSE Staircase(element, subsequence[pos + 1], subsequence, pos + 1,
                            Append(neighbours, subsequence[pos + 1]))
    ELSE neighbours

\* element.visited, the flag of the shared Element objects
is_visited_never(element, visited) == FALSE
is_visited(element, visited) == element.position \in visited

\* what a call of find_larger_neighbours adds to what the calls before it
\* left: its graph part, the flags it set, the elements it expanded (calls
\* that got past the visited test) and the depth its recursion reached
Absorb(acc, part) ==
    [graph |-> DictUnion(acc.graph, part.graph), visited |-> part.visited,
     expanded |-> acc.expanded \o part.expanded, depth |-> Max({acc.depth, part.depth})]

\* find_larger_neighbours returns the graph part; the visited flags it sets
\* on the shared elements are returned with it
RECURSIVE find_larger_neighbours(_, _, _)
RECURSIVE ExpandNeighbours(_, _, _, _)
find_larger_neighbours(element, seq, visited) ==
    IF Len(seq) = 0 \/ is_visited(element, visited)
    THEN [graph |-> EmptyDict, visited |-> visited, expanded |-> <<>>, depth |-> 1]
    ELSE LET v1  == visited \cup {element.position}
             pos == find_larger(element, seq, element.position + 1)
         IN  IF pos = None
             THEN [graph |-> EmptyDict, visited |-> v1,
                   expanded |-> <<element.position>>, depth |-> 1]
             ELSE LET neighbours == Staircase(element, seq[pos + 1], seq, pos + 1,
                                              <<seq[pos + 1]>>)
                  IN  [ExpandNeighbours(neighbours, 1, seq,
                          [graph |-> (element.position :> neighbours), visited |-> v1,
                           expanded |-> <<element.position>>, depth |-> 0])
                       EXCEPT !.depth = @ + 1]

ExpandNeighbours(neighbours, i, seq, acc) ==
    IF i > Len(neighbours) THEN acc
    ELSE ExpandNeighbours(neighbours, i + 1, seq,
             Absorb(acc, find_larger_neighbours(neighbours[i], seq, acc.visited)))

RECURSIVE MakeFullGraphLoop(_, _, _)
MakeFullGraphLoop(i, element_sequence, acc) ==
    IF i > Len(element_sequence) THEN acc
    ELSE LET part == find_larger_neighbours(element_sequence[i], element_sequence,
                                            acc.visited)
         IN  MakeFullGraphLoop(i + 1, element_sequence,
                 IF DOMAIN part.graph # {}
                 THEN [graph |-> DictUnion(acc.graph, part.graph),
                       root_elements |-> Append(acc.root_elements, element_sequence[i]),
                       visited |-> part.visited,
                       expanded |-> acc.expanded \o part.expanded,
                       depth |-> Max({acc.depth, part.depth})]
                 ELSE [acc EXCEPT !.visited = part.visited,
                                  !.expanded = @ \o part.expanded,
                                  !.depth = Max({@, part.depth})])

make_full_graph(seq) ==
    MakeFullGraphLoop(1, initialize_sequence(seq),
        [graph |-> EmptyDict, root_elements |-> <<>>, visited |-> {},
         expanded |-> <<>>, depth |-> 0])

PathRange(path) == path[Len(path)].position - path[1].position

\* the loop of find_best_path; best_path_range is computed once, from paths[0]
RECURSIVE FindBestPathLoop(_, _, _, _)
FindBestPathLoop(paths, i, best, best_path_range) ==
    IF i > Len(paths) THEN best
    ELSE IF Len(paths[i]) > Len(best)
         THEN FindBestPathLoop(paths, i + 1, paths[i], best_path_range)
    ELSE IF Len(paths[i]) = Len(best) /\ PathRange(paths[i]) < best_path_range
         THEN FindBestPathLoop(paths, i + 1, paths[i], best_path_range)
    ELSE FindBestPathLoop(paths, i + 1, best, best_path_range)

find_best_path_first(paths) ==
    IF Len(paths) = 0 THEN <<>> ELSE paths[1]
find_best_path(paths) ==
    IF Len(paths) = 0 THEN <<>>
    ELSE FindBestPathLoop(paths, 2, paths[1], PathRange(paths[1]))

RECURSIVE find_paths(_, _, _, _)
RECURSIVE FindPathsLoop(_, _, _, _, _)
find_paths(g, start, path, all_paths) ==
    LET p == Append(path, start)
    IN  IF start.position \notin DOMAIN g \/ g[start.position] = <<>>
        THEN Append(all_paths, p)
        ELSE FindPathsLoop(g, g[start.position], 1, p, all_paths)

FindPathsLoop(g, neighbours, i, path, all_paths) ==
    IF i > Len(neighbours) THEN all_paths
    ELSE FindPathsLoop(g, neighbours, i + 1, path,
                       find_paths(g, neighbours[i], path, all_paths))

find_best_path_in_sequence(g, roots) ==
    find_best_path([r \in 1..Len(roots) |->
                        find_best_path(find_paths(g, roots[r], <<>>, <<>>))])

(***************************************************************************)
(* Heading inputs                                                          *)
(***************************************************************************)
HeadingValues ==
    { <<"1">>, <<"1", ".", "1">>, <<"x">>, <<"2">>, <<"2", ".", "1">>, <<"1", "0">> }

\* three values whose order is the same under both comparisons
TieValues == { <<"1">>, <<"2">>, <<"3">> }

HeadingInputs == SeqsUpTo(HeadingValues, MaxSeqLen) \cup SeqsUpTo(TieValues, MaxTieLen)

\* scores a matrix entry can take, and the thresholds tried against them
ScoreValues == {0, 40, 60}
Thresholds == {40, 50}

ScoreMatrices ==
    UNION { { [nrows |-> m, ncols |-> n, at |-> f] :
                f \in [(0..(m - 1)) \X (0..(n - 1)) -> ScoreValues] } :
            m \in 0..MaxDim, n \in 0..MaxDim }

MatcherIdle ==
    /\ mpc = "idle"
    /\ score_matrix = [nrows |-> 0, ncols |-> 0, at |-> <<>>]
    /\ m_threshold = 0
    /\ row_col = {}
    /\ optimal_matches = <<>>

MatcherInit ==
    /\ mpc = "new"
    /\ score_matrix \in ScoreMatrices
    /\ m_threshold \in Thresholds
    /\ row_col = {}
    /\ optimal_matches = <<>>

\* compute_optimal_matches, from the score matrix on
ComputeOptimalMatches ==
    /\ mpc = "new"
    /\ \E a \in find_optimal_matches(score_matrix) :
          /\ row_col' = a
          /\ optimal_matches' = above_threshold(score_matrix, a, m_threshold)
    /\ mpc' = "done"
    /\ UNCHANGED <<score_matrix, m_threshold>>

MatcherNext ==
    ComputeOptimalMatches /\ UNCHANGED <<headingVars, differVars, compareVars, jobVars, recordVars, mergeVars, splitVars, tryVars, paraVars>>

\* texts a report is computed for
DiffTexts ==
    { <<"a", " ", "-", " ", "b">>, <<"a", "_", "b">>, <<"a", "|", "b">>, <<"a", "b">>,
      <<"a", "*", "b">>, <<"a", " ", "b">>, <<"a", "c">>, <<"a", "b", "c">>,
      <<"b", " ", "a">>, <<" ">>, <<>> }

DifferIdle ==
    /\ dpc = "idle"
    /\ d_left = <<>>
    /\ d_right = <<>>
    /\ d_report = <<>>
    /\ d_changed = FALSE

DifferInit ==
    /\ dpc = "new"
    /\ d_left \in DiffTexts
    /\ d_right \in DiffTexts
    /\ d_report = <<>>
    /\ d_changed = FALSE

\* get_match_json_report(text_left, text_right)
GetMatchJsonReport ==
    /\ dpc = "new"
    /\ LET r == get_report(d_left, d_right)
       IN  /\ d_report' = r.report
           /\ d_changed' = r.changed
    /\ dpc' = "done"
    /\ UNCHANGED <<d_left, d_right>>

DifferNext ==
    GetMatchJsonReport /\ UNCHANGED <<headingVars, matcherVars, compareVars, jobVars, recordVars, mergeVars, splitVars, tryVars, paraVars>>

\* the paragraph texts of the compared documents
UnitTexts ==
    { <<"a", "b", "c">>, <<"a", "b">>, <<"c">>, <<"a", "b", " ", "c">>, <<" ">> }

\* paragraphs as the extraction produces them: the id is the position
MakeParagraphs(texts) ==
    [k \in 1..Len(texts) |-> Paragraph(texts[k], k - 1, [para_pos |-> k - 1])]

\* ratio_threshold arguments, in hundredths
RatioThresholds == {50}
LengthThresholds == {1}

CompareIdle ==
    /\ cpc = "idle"
    /\ given_left = <<>>
    /\ given_right = <<>>
    /\ self_texts_left = <<>>
    /\ self_texts_right = <<>>
    /\ self_ratio_threshold = 0
    /\ self_length_threshold = 0
    /\ comparison_obj = <<>>
    /\ phases = <<>>

\* TextMatcher.__init__
CompareInit ==
    /\ cpc = "new"
    /\ given_left \in { MakeParagraphs(t) : t \in SeqsUpTo(UnitTexts, MaxUnits) }
    /\ given_right \in { MakeParagraphs(t) : t \in SeqsUpTo(UnitTexts, MaxUnits) }
    /\ self_texts_left = given_left
    /\ self_texts_right = given_right
    /\ self_ratio_threshold \in { t * ScoreUnit : t \in RatioThresholds }
    /\ self_length_threshold \in LengthThresholds
    /\ comparison_obj = <<>>
    /\ phases = <<>>

\* TextMatcher.generate_comparison
GenerateComparison ==
    /\ cpc = "new"
    /\ \E r \in generate_comparison(self_texts_left, self_texts_right,
                                    self_ratio_threshold, self_length_threshold) :
          /\ cpc' = IF r.raised THEN "raised" ELSE "done"
          /\ self_texts_left' = r.texts_left
          /\ self_texts_right' = r.texts_right
          /\ comparison_obj' = r.comparison_obj
          /\ phases' = r.phases
    /\ UNCHANGED <<given_left, given_right, self_ratio_threshold, self_length_threshold>>

CompareNext ==
    GenerateComparison /\ UNCHANGED <<headingVars, matcherVars, differVars, jobVars, recordVars, mergeVars, splitVars, tryVars, paraVars>>

HeadingIdle ==
    /\ hpc = "idle"
    /\ sequence = <<>>
    /\ graph = EmptyDict
    /\ root_elements = <<>>
    /\ best_path = <<>>
    /\ expansions = <<>>
    /\ max_depth = 0

HeadingInit ==
    /\ hpc = "new"
    /\ sequence \in HeadingInputs
    /\ graph = EmptyDict
    /\ root_elements = <<>>
    /\ best_path = <<>>
    /\ expansions = <<>>
    /\ max_depth = 0

\* GraphBuilder.__init__
GraphBuilderInit ==
    /\ hpc = "new"
    /\ LET built == make_full_graph(sequence)
       IN  /\ graph' = built.graph
           /\ root_elements' = built.root_elements
           /\ expansions' = built.expanded
           /\ max_depth' = built.depth
    /\ hpc' = "built"
    /\ UNCHANGED <<sequence, best_path>>

\* GraphBuilder.find_best_path_in_sequence
FindBestPathInSequence ==
    /\ hpc = "built"
    /\ best_path' = find_best_path_in_sequence(graph, root_elements)
    /\ hpc' = "resolved"
    /\ UNCHANGED <<sequence, graph, root_elements, expansions, max_depth>>

HeadingNext ==
    (GraphBuilderInit \/ FindBestPathInSequence)
    /\ UNCHANGED <<matcherVars, differVars, compareVars, jobVars, recordVars, mergeVars, splitVars, tryVars, paraVars>>

(***************************************************************************)
(* The comparison job: routers/compare.py, internal/notifier.py,           *)
(* internal/temp_storage.py, use_cases/compare_documents.py                *)
(***************************************************************************)
\* internal/constants.py: the percent values of the phase boundaries
INIT_PROGRESS == 5
COMPLETE_FIRST == 25
COMPLETE_SECOND == 45
COMPLETE_SPLIT == 60
COMPLETE_MERGE == 80

\* the values run_comparison_task writes itself
COMPLETED_PROGRESS == 99
FAILED_PROGRESS == -1

\* Notifier.loop_notify: the percent of one loop iteration
loop_notify(iteration, lower, upper, max_iter) ==
    lower + ((iteration * (upper - lower)) \div max_iter)

\* PDFProcessor.extract_paragraphs: the percents of the word pass over the
\* pages, then those of the paragraph pass
extract_paragraphs(n_pages, lower, upper) ==
    LET middle == (upper + lower) \div 2
    IN  [p \in 1..n_pages |-> loop_notify(p - 1, lower, middle, n_pages)]
        \o [p \in 1..n_pages |-> loop_notify(p - 1, middle, upper, n_pages)]

\* ParagraphMerger.merge_paragraphs: the percents of the merge loop when each
\* pass shortens the longer stack
merge_paragraphs(n) ==
    [it \in 1..n |-> loop_notify(it, COMPLETE_SPLIT, COMPLETE_MERGE, n)]

\* TempStorage.cache_progress for each of the percents in turn: the store
\* accepts the first k calls; when cut is set, the next call sets the progress
\* key and raises on the status key; when k < Len(percents) a call raised
cache_progress(percents, status, k, cut) ==
    LET done == SubSeq(percents, 1, IF cut THEN k + 1 ELSE k)
    IN  [written |-> written \o done,
         progress_key |-> IF done = <<>> THEN progress_key ELSE <<done[Len(done)]>>,
         status_key |-> IF k = 0 THEN status_key ELSE <<status>>,
         raised |-> k < Len(percents)]

\* where the store can stop accepting a run of calls
StoreOutcomes(percents) ==
    { <<k, cut>> \in (0..Len(percents)) \X BOOLEAN : cut => k < Len(percents) }

\* Notifier.notify for each of the percents; an exception of the store is not
\* caught here and reaches the try of run_comparison_task
Notify(percents, status, next_pc) ==
    \E o \in StoreOutcomes(percents) :
        LET r == cache_progress(percents, status, o[1], o[2])
        IN  /\ written' = r.written
            /\ progress_key' = r.progress_key
            /\ status_key' = r.status_key
            /\ jpc' = IF r.raised THEN "except" ELSE next_pc
            /\ raised_by' = IF r.raised THEN raised_by \cup {"notify"} ELSE raised_by

\* an exception raised by the comparison itself
CoreRaises ==
    /\ jpc' = "except"
    /\ raised_by' = raised_by \cup {"core"}
    /\ UNCHANGED <<written, progress_key, status_key>>

\* run_comparison_task: notifier.notify(INIT_PROGRESS)
NotifyInit ==
    /\ jpc = "queued"
    /\ Notify(<<INIT_PROGRESS>>, "processing", "extract_left")
    /\ UNCHANGED <<pages_left, pages_right, max_loop_length, result_key, escaped, runs, last_answer, poll, last_progress, late_answer>>

\* compare_documents: the left document's paragraphs
ExtractLeft ==
    /\ jpc = "extract_left"
    /\ runs' = runs + 1
    /\ \/ Notify(extract_paragraphs(pages_left, INIT_PROGRESS, COMPLETE_FIRST),
                 "processing", "extract_right")
       \/ CoreRaises
    /\ UNCHANGED <<pages_left, pages_right, max_loop_length, result_key, escaped, last_answer, poll, last_progress, late_answer>>

\* compare_documents: the right document's paragraphs
ExtractRight ==
    /\ jpc = "extract_right"
    /\ \/ Notify(extract_paragraphs(pages_right, COMPLETE_FIRST, COMPLETE_SECOND),
                 "processing", "compare")
       \/ CoreRaises
    /\ UNCHANGED <<pages_left, pages_right, max_loop_length, result_key, escaped, runs, last_answer, poll, last_progress, late_answer>>

\* compare_documents: TextMatcher(...).generate_comparison(mode)
MakeComparison ==
    /\ jpc = "compare"
    /\ \/ Notify(merge_paragraphs(max_loop_length), "processing", "headings")
       \/ CoreRaises
    /\ UNCHANGED <<pages_left, pages_right, max_loop_length, result_key, escaped, runs, last_answer, poll, last_progress, late_answer>>

\* compare_documents: the heading update and notifier.notify(99)
UpdateHeadings ==
    /\ jpc = "headings"
    /\ \/ Notify(<<COMPLETED_PROGRESS>>, "processing", "returned")
       \/ CoreRaises
    /\ UNCHANGED <<pages_left, pages_right, max_loop_length, result_key, escaped, runs, last_answer, poll, last_progress, late_answer>>

\* run_comparison_task: the records are sorted and temp_store.cache_result
\* stores them, unless the sort or the store raises
CacheResult_unstored ==
    /\ jpc = "returned"
    /\ \/ /\ jpc' = "cached"
          /\ UNCHANGED <<raised_by, result_key>>
       \/ /\ jpc' = "except"
          /\ raised_by' = raised_by \cup {"cache_result"}
          /\ UNCHANGED result_key
    /\ UNCHANGED <<pages_left, pages_right, max_loop_length, progress_key, status_key,
                   written, escaped, runs, last_answer, poll, last_progress, late_answer>>

CacheResult ==
    /\ jpc = "returned"
    /\ \/ /\ result_key' = <<"records">>
          /\ jpc' = "cached"
          /\ UNCHANGED raised_by
       \/ /\ jpc' = "except"
          /\ raised_by' = raised_by \cup {"cache_result"}
          /\ UNCHANGED result_key
    /\ UNCHANGED <<pages_left, pages_right, max_loop_length, progress_key, status_key,
                   written, escaped, runs, last_answer, poll, last_progress, late_answer>>

\* run_comparison_task: notifier.notify(99, "completed")
NotifyCompleted ==
    /\ jpc = "cached"
    /\ Notify(<<COMPLETED_PROGRESS>>, "completed", "finally")
    /\ UNCHANGED <<pages_left, pages_right, max_loop_length, result_key, escaped, runs, last_answer, poll, last_progress, late_answer>>

\* the percent and status the except clauses write
failure_record_completed == [progress |-> COMPLETED_PROGRESS, status |-> "completed"]
failure_record == [progress |-> FAILED_PROGRESS, status |-> "failed"]

\* run_comparison_task: either except clause,
\* temp_store.cache_progress(task_id, -1, "failed"); an exception of the store
\* leaves the handler
RecordFailure ==
    /\ jpc = "except"
    /\ \E o \in StoreOutcomes(<<failure_record.progress>>) :
          LET r == cache_progress(<<failure_record.progress>>, failure_record.status, o[1], o[2])
          IN  /\ written' = r.written
              /\ progress_key' = r.progress_key
              /\ status_key' = r.status_key
              /\ escaped' = r.raised
              /\ raised_by' = IF r.raised THEN raised_by \cup {"cache_progress"}
                              ELSE raised_by
    /\ jpc' = "finally"
    /\ UNCHANGED <<pages_left, pages_right, max_loop_length, result_key, runs, last_answer, poll, last_progress, late_answer>>

\* run_comparison_task: the finally clause removes both uploaded files
RemoveFiles ==
    /\ jpc = "finally"
    /\ jpc' = "ended"
    /\ UNCHANGED <<pages_left, pages_right, max_loop_length, progress_key, status_key,
                   result_key, written, raised_by, escaped, runs, last_answer, poll,
                   last_progress, late_answer>>

\* get_task_result: the stored dataset, or HTTP 400 while there is none
get_task_result == IF result_key = <<>> THEN "not available" ELSE "result"

\* a request to get_task_result at any time; late_answer keeps the answer
\* when a get_task_progress has answered "completed" before
GetTaskResult ==
    /\ jpc \notin {"idle"}
    /\ last_answer' = get_task_result
    /\ late_answer' = IF late_answer = "none" THEN "none" ELSE get_task_result
    /\ UNCHANGED <<jpc, pages_left, pages_right, max_loop_length, progress_key, status_key,
                   result_key, written, raised_by, escaped, runs, poll, last_progress>>

\* TempStorage.get_progress after its two reads: (None, None) is <<>>
get_progress(progress, status) ==
    IF progress = <<>> \/ status = <<>> THEN <<>>
    ELSE <<[progress |-> progress[1], status |-> status[1]]>>

\* get_task_progress, first half: get_progress reads the progress key
ReadProgressKey ==
    /\ jpc \notin {"idle"}
    /\ poll = <<>>
    /\ poll' = <<progress_key>>
    /\ UNCHANGED <<jpc, pages_left, pages_right, max_loop_length, progress_key, status_key,
                   result_key, written, raised_by, escaped, runs, last_answer,
                   last_progress, late_answer>>

\* get_task_progress, second half: get_progress reads the status key, which
\* the task may have written since, and the request is answered (<<>> is
\* HTTP 400)
GetTaskProgress ==
    /\ poll # <<>>
    /\ last_progress' = get_progress(poll[1], status_key)
    /\ late_answer' = IF /\ late_answer = "none"
                         /\ get_progress(poll[1], status_key) # <<>>
                         /\ get_progress(poll[1], status_key)[1].status = "completed"
                      THEN "awaited" ELSE late_answer
    /\ poll' = <<>>
    /\ UNCHANGED <<jpc, pages_left, pages_right, max_loop_length, progress_key, status_key,
                   result_key, written, raised_by, escaped, runs, last_answer>>

JobIdle ==
    /\ jpc = "idle"
    /\ pages_left = 0
    /\ pages_right = 0
    /\ max_loop_length = 0
    /\ progress_key = <<>>
    /\ status_key = <<>>
    /\ result_key = <<>>
    /\ written = <<>>
    /\ raised_by = {}
    /\ escaped = FALSE
    /\ runs = 0
    /\ last_answer = "none"
    /\ poll = <<>>
    /\ last_progress = <<>>
    /\ late_answer = "none"

\* start_task: a fresh task id, nothing stored under it yet
JobInit ==
    /\ jpc = "queued"
    /\ pages_left \in 0..MaxPages
    /\ pages_right \in 0..MaxPages
    /\ max_loop_length \in 0..MaxLoop
    /\ progress_key = <<>>
    /\ status_key = <<>>
    /\ result_key = <<>>
    /\ written = <<>>
    /\ raised_by = {}
    /\ escaped = FALSE
    /\ runs = 0
    /\ last_answer = "none"
    /\ poll = <<>>
    /\ last_progress = <<>>
    /\ late_answer = "none"

JobNext ==
    (NotifyInit \/ ExtractLeft \/ ExtractRight \/ MakeComparison \/ UpdateHeadings
        \/ CacheResult \/ NotifyCompleted \/ RecordFailure \/ RemoveFiles \/ GetTaskResult
        \/ ReadProgressKey \/ GetTaskProgress)
    /\ UNCHANGED <<headingVars, matcherVars, differVars, compareVars, recordVars, mergeVars, splitVars, tryVars, paraVars>>

\* the texts of reconciled units: none is blank
RecordTexts == { <<"a", "b", "c">>, <<"a", "b">>, <<"c">> }

RecordsIdle ==
    /\ rpc = "idle"
    /\ final_left = <<>>
    /\ final_right = <<>>
    /\ final_threshold = 0
    /\ final_matches = <<>>
    /\ final_records = <<>>

\* the reconciled lists the merge phase leaves in self.texts_left / texts_right
RecordsInit ==
    /\ rpc = "new"
    /\ final_left \in { MakeParagraphs(t) : t \in SeqsUpTo(RecordTexts, MaxUnits) }
    /\ final_right \in { MakeParagraphs(t) : t \in SeqsUpTo(RecordTexts, MaxUnits) }
    /\ final_threshold \in { t * ScoreUnit : t \in RatioThresholds }
    /\ final_matches = <<>>
    /\ final_records = <<>>

\* generate_comparison from its compute_optimal_matches call on: the final
\* matching pass and the three record loops
FinalMatchingPass ==
    /\ rpc = "new"
    /\ \E matches \in compute_optimal_matches(
                          calculate_score_matrix(final_left, final_right), final_threshold) :
          /\ final_matches' = matches
          /\ final_records' = BuildComparison(final_left, final_right, matches)
    /\ rpc' = "done"
    /\ UNCHANGED <<final_left, final_right, final_threshold>>

RecordsNext ==
    FinalMatchingPass
    /\ UNCHANGED <<headingVars, matcherVars, differVars, compareVars, jobVars, mergeVars, splitVars, tryVars, paraVars>>

(***************************************************************************)
(* Record merge strategies: merge_strategies.py, paragraph_utils.py        *)
(* An optional paragraph is <<>> for None and <<paragraph>> otherwise.     *)
(***************************************************************************)
NoParagraph == <<>>

ParagraphMatch(ratio, type, position, position_secondary, paragraph_left, paragraph_right) ==
    [ratio |-> ratio, type |-> type, position |-> position,
     position_secondary |-> position_secondary,
     paragraph_left |-> paragraph_left, paragraph_right |-> paragraph_right]

\* " ".join(texts)
RECURSIVE JoinTexts(_)
JoinTexts(texts) ==
    IF texts = <<>> THEN <<>>
    ELSE IF Len(texts) = 1 THEN texts[1]
    ELSE JoinSpace(texts[1], JoinTexts(Tail(texts)))

\* the paragraphs of a list of optional paragraphs that are not None
Present(paragraphs) ==
    LET kept == SelectSeq(paragraphs, LAMBDA p : p # NoParagraph)
    IN  [k \in 1..Len(kept) |-> kept[k][1]]

\* paragraph_utils.join_paragraphs
join_paragraphs(paragraphs) ==
    [text |-> JoinTexts([k \in 1..Len(Present(paragraphs)) |-> Present(paragraphs)[k].text]),
     id |-> IF paragraphs[1] # NoParagraph THEN paragraphs[1][1].id ELSE "",
     payload |-> IF paragraphs[1] # NoParagraph THEN paragraphs[1][1].payload ELSE <<>>]

\* a joined paragraph, None when its text is empty
NoneIfEmpty(paragraph) == IF paragraph.text = <<>> THEN NoParagraph ELSE <<paragraph>>

\* _join_matches
join_matches(matches) ==
    ParagraphMatch(matches[1].ratio, matches[1].type, matches[1].position,
        matches[1].position_secondary,
        NoneIfEmpty(join_paragraphs([k \in 1..Len(matches) |-> matches[k].paragraph_left])),
        NoneIfEmpty(join_paragraphs([k \in 1..Len(matches) |-> matches[k].paragraph_right])))

\* prev_match and prev_match.type != current_match.type
TypeDiffers(current_match, prev_match) ==
    prev_match # <<>> /\ prev_match[1].type # current_match.type

\* prev_match and both paragraphs of a side present and their ids different
IdDiffers(current, prev) ==
    /\ prev # NoParagraph
    /\ current # NoParagraph
    /\ prev[1].id # current[1].id

IdsDiffer(current_match, prev_match) ==
    /\ prev_match # <<>>
    /\ \/ IdDiffers(current_match.paragraph_left, prev_match[1].paragraph_left)
       \/ IdDiffers(current_match.paragraph_right, prev_match[1].paragraph_right)

unmatched_condition_no_id(current_match, prev_match) ==
    IF current_match.type \notin {"removed", "new"} THEN FALSE
    ELSE IF TypeDiffers(current_match, prev_match) THEN FALSE
    ELSE TRUE

unmatched_condition_with_id(current_match, prev_match) ==
    IF current_match.type \notin {"removed", "new"} THEN FALSE
    ELSE IF TypeDiffers(current_match, prev_match) THEN FALSE
    ELSE IF IdsDiffer(current_match, prev_match) THEN FALSE
    ELSE TRUE

matched_condition_any_id(current_match, prev_match) ==
    IF current_match.type \notin {"equal", "changed"} THEN FALSE
    ELSE IF TypeDiffers(current_match, prev_match) THEN FALSE
    ELSE TRUE
matched_condition(current_match, prev_match) ==
    IF current_match.type \notin {"equal", "changed"} THEN FALSE
    ELSE IF TypeDiffers(current_match, prev_match) THEN FALSE
    ELSE IF IdsDiffer(current_match, prev_match) THEN FALSE
    ELSE TRUE

\* the predicate passed as the condition argument, by its name
Condition(name, current_match, prev_match) ==
    IF name = "unmatched_condition_no_id"
    THEN unmatched_condition_no_id(current_match, prev_match)
    ELSE IF name = "unmatched_condition_with_id"
    THEN unmatched_condition_with_id(current_match, prev_match)
    ELSE matched_condition(current_match, prev_match)

\* the loop of merge_matches_on_condition and the flush after it
RECURSIVE MergeLoop(_, _, _, _, _, _)
MergeLoop(matches, k, condition, prev_match, buffer_matches, merged) ==
    IF k > Len(matches)
    THEN IF buffer_matches # <<>> THEN Append(merged, join_matches(buffer_matches))
         ELSE merged
    ELSE IF ~Condition(condition, matches[k], prev_match) /\ buffer_matches # <<>>
    THEN MergeLoop(matches, k + 1, condition, <<matches[k]>>, <<matches[k]>>,
                   Append(merged, join_matches(buffer_matches)))
    ELSE MergeLoop(matches, k + 1, condition, <<matches[k]>>,
                   Append(buffer_matches, matches[k]), merged)

merge_matches_on_condition(matches, condition) ==
    MergeLoop(matches, 1, condition, <<>>, <<>>, <<>>)

\* getattr(pair, orig_attr) and getattr(pair, compare_attr)
OrigOf(pair, side) == IF side = "left" THEN pair.paragraph_left ELSE pair.paragraph_right
CompareOf(pair, side) == IF side = "left" THEN pair.paragraph_right ELSE pair.paragraph_left

\* Paragraph("", "")
EmptyParagraph == [text |-> <<>>, id |-> "", payload |-> <<>>]

\* seq[i] with Python's negative indices
PyIndex(seq, i) == IF i < 0 THEN seq[Len(seq) + i + 1] ELSE seq[i + 1]

\* the joined paragraph _check_item_for_join returns for the record at idx
CheckFound(pairs, idx, joined_text, para_compare) ==
    [idx |-> idx,
     ratio_diff |-> fuzz_ratio(joined_text, para_compare.text) - pairs[idx + 1].ratio,
     joined_para |-> [text |-> joined_text, id |-> para_compare.id,
                      payload |-> para_compare.payload]]

\* the loop of _check_item_for_join
RECURSIVE CheckLoop(_, _, _, _, _, _)
CheckLoop(pairs, idx, end_pos, base_para, side, direction) ==
    IF idx = end_pos THEN [idx |-> -1, ratio_diff |-> 0, joined_para |-> EmptyParagraph]
    ELSE IF OrigOf(pairs[idx + 1], side) = NoParagraph
    THEN CheckLoop(pairs, idx + direction, end_pos, base_para, side, direction)
    ELSE IF CompareOf(pairs[idx + 1], side) = NoParagraph
    THEN [idx |-> idx, ratio_diff |-> 0, joined_para |-> EmptyParagraph]
    ELSE CheckFound(pairs, idx,
             IF direction > 0
             THEN JoinSpace(base_para.text, OrigOf(pairs[idx + 1], side)[1].text)
             ELSE JoinSpace(OrigOf(pairs[idx + 1], side)[1].text, base_para.text),
             CompareOf(pairs[idx + 1], side)[1])

\* _check_item_for_join
check_item_for_join(pairs, position, side, direction) ==
    CheckLoop(pairs, position + direction, IF direction > 0 THEN Len(pairs) ELSE -1,
              OrigOf(pairs[position + 1], side)[1], side, direction)

\* the assignments to updated_pairs[idx]: the ratio and the joined paragraph
\* on the side that is optimized
Rejoined(pair, side, ratio, joined_para) ==
    IF side = "left"
    THEN [pair EXCEPT !.ratio = ratio, !.paragraph_left = <<joined_para>>]
    ELSE [pair EXCEPT !.ratio = ratio, !.paragraph_right = <<joined_para>>]

\* one join as the loop did it: the orphan, the record joined into, that
\* record's ratio before, the improvement measured and the ratio assigned
JoinRecord(pos, found, direction, pairs, ratio) ==
    [pos |-> pos, into |-> found.idx, direction |-> direction,
     ratio_before |-> pairs[found.idx + 1].ratio, ratio_diff |-> found.ratio_diff,
     ratio_after |-> ratio]

\* the body of the loop of _join_optimize_text_pairs_side for an orphan at
\* pos; joined_at records the positions whose text one of the two branches
\* concatenated into a neighbour, joins what the branches assigned
JoinStep(acc, pos, side, nxt, prv) ==
    IF nxt.ratio_diff > 0 \/ prv.ratio_diff > 0
    THEN IF nxt.ratio_diff > 0 /\ nxt.ratio_diff > prv.ratio_diff
         THEN [pairs |-> [acc.pairs EXCEPT ![nxt.idx + 1] =
                             Rejoined(@, side, @.ratio + nxt.ratio_diff, nxt.joined_para)],
               indices_to_delete |-> Append(acc.indices_to_delete, pos),
               joined_at |-> acc.joined_at \cup {pos},
               joins |-> Append(acc.joins,
                                JoinRecord(pos, nxt, 1, acc.pairs,
                                           acc.pairs[nxt.idx + 1].ratio + nxt.ratio_diff))]
         ELSE IF prv.ratio_diff > 0 /\ prv.ratio_diff > nxt.ratio_diff
         THEN [pairs |-> [acc.pairs EXCEPT ![prv.idx + 1] =
                             Rejoined(@, side,
                                      PyIndex(acc.pairs, nxt.idx).ratio + nxt.ratio_diff,
                                      prv.joined_para)],
               indices_to_delete |-> Append(acc.indices_to_delete, pos),
               joined_at |-> acc.joined_at \cup {pos},
               joins |-> Append(acc.joins,
                                JoinRecord(pos, prv, -1, acc.pairs,
                                           PyIndex(acc.pairs, nxt.idx).ratio
                                               + nxt.ratio_diff))]
         ELSE [acc EXCEPT !.indices_to_delete = Append(@, pos)]
    ELSE acc

\* the loop of _join_optimize_text_pairs_side over the positions
RECURSIVE JoinSideLoop(_, _, _)
JoinSideLoop(acc, pos, side) ==
    IF pos >= Len(acc.pairs) THEN acc
    ELSE IF CompareOf(acc.pairs[pos + 1], side) # NoParagraph
    THEN JoinSideLoop(acc, pos + 1, side)
    ELSE JoinSideLoop(JoinStep(acc, pos, side,
                               check_item_for_join(acc.pairs, pos, side, 1),
                               check_item_for_join(acc.pairs, pos, side, -1)),
                      pos + 1, side)

\* updated_pairs.pop(idx) for the indices to delete
WithoutIndices(pairs, indices) ==
    LET kept == SelectSeq([k \in 1..Len(pairs) |-> k - 1],
                          LAMBDA i : \A h \in 1..Len(indices) : indices[h] # i)
    IN  [k \in 1..Len(kept) |-> pairs[kept[k] + 1]]

\* one pass as the loop left it: the list it started from, the list it
\* returns, the positions it deleted and those it concatenated
PassOf(acc, pairs, side) ==
    [side |-> side, before |-> pairs,
     after |-> WithoutIndices(acc.pairs, acc.indices_to_delete),
     deleted |-> { acc.indices_to_delete[h] : h \in 1..Len(acc.indices_to_delete) },
     joined_at |-> acc.joined_at, joins |-> acc.joins]

\* _join_optimize_text_pairs_side
join_optimize_text_pairs_side(pairs, side) ==
    PassOf(JoinSideLoop([pairs |-> pairs, indices_to_delete |-> <<>>, joined_at |-> {},
                         joins |-> <<>>],
                        0, side),
           pairs, side)

\* the right-side pass of join_optimize_paragraph_matches after the passes so far
ThenRightSide(passes, updated_matches, do_right_side) ==
    IF do_right_side
    THEN Append(passes, join_optimize_text_pairs_side(updated_matches, "right"))
    ELSE passes

\* join_optimize_paragraph_matches: the passes it ran, in order; the list it
\* returns is the last pass's, or the given list when it ran none
LeftSide(matches, passes, do_right_side) ==
    ThenRightSide(passes, passes[1].after, do_right_side)

join_optimize_paragraph_matches(matches, do_left_side, do_right_side) ==
    IF do_left_side
    THEN LeftSide(matches, <<join_optimize_text_pairs_side(matches, "left")>>, do_right_side)
    ELSE ThenRightSide(<<>>, matches, do_right_side)

\* the records the strategies are applied to: a "removed" record has a left
\* paragraph only, a "new" record a right one only, "equal" and "changed"
\* records have both and carry the ratio of their texts
RecordShapes ==
    { [type |-> "removed", left |-> <<"b">>, right |-> <<>>, id |-> "1"],
      [type |-> "removed", left |-> <<"b">>, right |-> <<>>, id |-> "2"],
      [type |-> "new", left |-> <<>>, right |-> <<"b">>, id |-> "1"],
      [type |-> "new", left |-> <<>>, right |-> <<"a">>, id |-> "2"],
      [type |-> "changed", left |-> <<"a">>, right |-> <<"a", " ", "b">>, id |-> "1"],
      [type |-> "changed", left |-> <<"a">>, right |-> <<"b", " ", "a">>, id |-> "1"],
      [type |-> "changed", left |-> <<"a", " ", "b">>, right |-> <<"a">>, id |-> "2"],
      [type |-> "equal", left |-> <<"a">>, right |-> <<"a">>, id |-> "1"],
      [type |-> "equal", left |-> <<"b">>, right |-> <<"b">>, id |-> "2"] }

MakeMatch(shape, k) ==
    ParagraphMatch(
        IF shape.type \in {"removed", "new"} THEN 0 ELSE fuzz_ratio(shape.left, shape.right),
        shape.type, k, IF shape.type = "removed" THEN -1 ELSE k,
        IF shape.type = "new" THEN NoParagraph
        ELSE <<Paragraph(shape.left, shape.id, [para_pos |-> k])>>,
        IF shape.type = "removed" THEN NoParagraph
        ELSE <<Paragraph(shape.right, shape.id, [para_pos |-> k])>>)

MakeMatches(shapes) == [k \in 1..Len(shapes) |-> MakeMatch(shapes[k], k - 1)]

Conditions ==
    {"unmatched_condition_no_id", "unmatched_condition_with_id", "matched_condition"}

MergeIdle ==
    /\ gpc = "idle"
    /\ g_matches = <<>>
    /\ g_condition = ""
    /\ g_merged = <<>>
    /\ g_passes = <<>>
    /\ g_joined = <<>>

MergeInit ==
    /\ gpc = "new"
    /\ g_matches \in { MakeMatches(shapes) : shapes \in SeqsUpTo(RecordShapes, MaxMatches) }
    /\ g_condition = ""
    /\ g_merged = <<>>
    /\ g_passes = <<>>
    /\ g_joined = <<>>

\* merge_matches_on_condition(matches, condition)
MergeMatchesOnCondition ==
    /\ gpc = "new"
    /\ \E condition \in Conditions :
          /\ g_condition' = condition
          /\ g_merged' = merge_matches_on_condition(g_matches, condition)
    /\ gpc' = "merged"
    /\ UNCHANGED <<g_matches, g_passes, g_joined>>

\* join_optimize_paragraph_matches(matches, do_left_side, do_right_side)
JoinOptimizeParagraphMatches ==
    /\ gpc = "new"
    /\ \E do_left_side, do_right_side \in BOOLEAN :
          \E passes \in { join_optimize_paragraph_matches(g_matches, do_left_side,
                                                          do_right_side) } :
              /\ g_passes' = passes
              /\ g_joined' = IF passes = <<>> THEN g_matches
                             ELSE passes[Len(passes)].after
    /\ gpc' = "joined"
    /\ UNCHANGED <<g_matches, g_condition, g_merged>>

MergeNext ==
    (MergeMatchesOnCondition \/ JoinOptimizeParagraphMatches)
    /\ UNCHANGED <<headingVars, matcherVars, differVars, compareVars, jobVars, recordVars, splitVars, tryVars, paraVars>>

(***************************************************************************)
(* Splitting a matched pair at sentence boundaries: utils.py               *)
(* get_outer_positions, align_start, align_end and the opcode loop of      *)
(* TextMatcher.split_combined_text                                         *)
(***************************************************************************)
\* bisect.bisect_right and bisect.bisect_left on a sorted list
bisect_right(arr, x) == Cardinality({ k \in 1..Len(arr) : arr[k] <= x })
bisect_left(arr, x) == Cardinality({ k \in 1..Len(arr) : arr[k] < x })

get_outer_positions_strict(arr, left, right) ==
    [pos_left |-> IF 0 < bisect_left(arr, left) /\ bisect_left(arr, left) < Len(arr)
                  THEN arr[bisect_left(arr, left)] ELSE left,
     pos_right |-> IF 0 < bisect_left(arr, right) /\ bisect_left(arr, right) < Len(arr)
                   THEN arr[bisect_left(arr, right) + 1] ELSE right]
\* utils.get_outer_positions; arr[i - 1] of the 0-based list is arr[i] here
get_outer_positions(arr, left, right) ==
    [pos_left |-> IF 0 < bisect_right(arr, left) /\ bisect_right(arr, left) < Len(arr)
                  THEN arr[bisect_right(arr, left)] ELSE left,
     pos_right |-> IF 0 < bisect_left(arr, right) /\ bisect_left(arr, right) < Len(arr)
                   THEN arr[bisect_left(arr, right) + 1] ELSE right]

\* utils.align_start
RECURSIVE align_start(_, _)
align_start(start, text) ==
    IF Slice(text, start, start + 1) = <<" ">> THEN align_start(start + 1, text) ELSE start

\* utils.align_end
RECURSIVE align_end(_, _)
align_end(end, text) ==
    IF Slice(text, end, end + 1) = <<" ">> THEN align_end(end - 1, text) ELSE end

\* the sentence index split_combined_text unpacks from split_into_sentences,
\* with len(text) appended: 0 and the offset after each sentence that another
\* sentence follows. In the texts used here every "." ends a sentence.
split_positions(text) ==
    SortedSeq({0} \cup { p \in 1..(Len(text) - 1) : text[p] = "." } \cup {Len(text)})

\* Paragraph(text=text.text[a:b].strip(), id=text.id, payload=text.payload)
Segment(text, a, b) == Paragraph(Strip(Slice(text.text, a, b)), text.id, text.payload)

\* the body of the opcode loop for a long delete or insert, after the calls
\* of get_outer_positions returned l and r
SplitAt(acc, text_left, text_right, l, r) ==
    [segments_left |->
        (IF acc.current_left_index <= l.pos_left /\ acc.current_right_index <= r.pos_left
         THEN Append(acc.segments_left, Segment(text_left, acc.current_left_index, l.pos_left))
         ELSE acc.segments_left) \o <<Segment(text_left, l.pos_left, l.pos_right)>>,
     segments_right |->
        (IF acc.current_left_index <= l.pos_left /\ acc.current_right_index <= r.pos_left
         THEN Append(acc.segments_right,
                     Segment(text_right, acc.current_right_index, r.pos_left))
         ELSE acc.segments_right) \o <<Segment(text_right, r.pos_left, r.pos_right)>>,
     current_left_index |-> l.pos_right,
     current_right_index |-> r.pos_right,
     cuts_left |-> acc.cuts_left \cup {l.pos_left, l.pos_right},
     cuts_right |-> acc.cuts_right \cup {r.pos_left, r.pos_right}]

\* the opcode loop of split_combined_text
RECURSIVE SplitOpcodes(_, _, _, _, _, _, _, _)
SplitOpcodes(acc, text_left, text_right, opcodes, n, length_threshold, split_pos_left, split_pos_right) ==
    IF n > Len(opcodes) THEN acc
    ELSE IF \/ opcodes[n].tag = "delete" /\ opcodes[n].i2 - opcodes[n].i1 > length_threshold
            \/ opcodes[n].tag = "insert" /\ opcodes[n].j2 - opcodes[n].j1 > length_threshold
    THEN SplitOpcodes(
             SplitAt(acc, text_left, text_right,
                     get_outer_positions(split_pos_left,
                                         align_start(opcodes[n].i1, text_left.text),
                                         align_end(opcodes[n].i2, text_left.text)),
                     get_outer_positions(split_pos_right,
                                         align_start(opcodes[n].j1, text_right.text),
                                         align_end(opcodes[n].j2, text_right.text))),
             text_left, text_right, opcodes, n + 1, length_threshold,
             split_pos_left, split_pos_right)
    ELSE SplitOpcodes(acc, text_left, text_right, opcodes, n + 1, length_threshold,
                      split_pos_left, split_pos_right)

\* the segments after the loop: the rest of each text when one is left
SplitRest(acc, text_left, text_right) ==
    [acc EXCEPT
        !.segments_left =
            IF acc.current_left_index < Len(text_left.text)
            THEN Append(@, Paragraph(Strip(SliceFrom(text_left.text, acc.current_left_index)),
                                     text_left.id, text_left.payload))
            ELSE @,
        !.segments_right =
            IF acc.current_right_index < Len(text_right.text)
            THEN Append(@, Paragraph(Strip(SliceFrom(text_right.text, acc.current_right_index)),
                                     text_right.id, text_right.payload))
            ELSE @]

\* split_combined_text from its first loop on, given the two sentence indexes
split_at_sentences(text_left, text_right, opcodes, length_threshold, split_pos_left, split_pos_right) ==
    SplitRest(SplitOpcodes([segments_left |-> <<>>, segments_right |-> <<>>,
                            current_left_index |-> 0, current_right_index |-> 0,
                            cuts_left |-> {}, cuts_right |-> {}],
                           text_left, text_right, opcodes, 1, length_threshold,
                           split_pos_left, split_pos_right),
              text_left, text_right)

\* sorted boundary arrays and positions for get_outer_positions
SortedArrays ==
    { arr \in SeqsUpTo(0..MaxPos, MaxArr) : \A k \in 1..(Len(arr) - 1) : arr[k] <= arr[k + 1] }

\* texts of one to MaxSentences sentences
Sentences == { <<"a", " ", "a", "b", ".">>, <<"b", " ", "b", "a", ".">> }
SplitTexts == { JoinTexts(s) : s \in SeqsUpTo(Sentences, MaxSentences) \ {<<>>} }
SplitThresholds == {0, 2}

NoText == Paragraph(<<>>, "", <<>>)
NoSplit == [segments_left |-> <<>>, segments_right |-> <<>>,
            current_left_index |-> 0, current_right_index |-> 0,
            cuts_left |-> {}, cuts_right |-> {}]

SplitIdle ==
    /\ spc = "idle"
    /\ s_arr = <<>>
    /\ s_left = 0
    /\ s_right = 0
    /\ s_outer = <<>>
    /\ s_text_left = NoText
    /\ s_text_right = NoText
    /\ s_length_threshold = 0
    /\ s_split = NoSplit

\* either a boundary array with two positions, left <= right, or a matched
\* pair of texts with a length threshold
SplitInit ==
    /\ s_outer = <<>>
    /\ s_split = NoSplit
    /\ \/ /\ spc = "positions"
          /\ s_arr \in SortedArrays
          /\ s_left \in 0..MaxPos
          /\ s_right \in s_left..MaxPos
          /\ s_text_left = NoText
          /\ s_text_right = NoText
          /\ s_length_threshold = 0
       \/ /\ spc = "pair"
          /\ s_arr = <<>>
          /\ s_left = 0
          /\ s_right = 0
          /\ s_text_left \in { Paragraph(t, "1", [para_pos |-> 0]) : t \in SplitTexts }
          /\ s_text_right \in { Paragraph(t, "2", [para_pos |-> 1]) : t \in SplitTexts }
          /\ s_length_threshold \in SplitThresholds

\* get_outer_positions(arr, left, right)
GetOuterPositions ==
    /\ spc = "positions"
    /\ s_outer' = <<get_outer_positions(s_arr, s_left, s_right)>>
    /\ spc' = "aligned"
    /\ UNCHANGED <<s_arr, s_left, s_right, s_text_left, s_text_right,
                   s_length_threshold, s_split>>

\* split_combined_text(text_left, text_right, opcodes, length_threshold) with
\* the opcodes of the pair
SplitCombinedText ==
    /\ spc = "pair"
    /\ s_split' = split_at_sentences(s_text_left, s_text_right,
                      get_edit_operations(s_text_left.text, s_text_right.text, {}),
                      s_length_threshold,
                      split_positions(s_text_left.text), split_positions(s_text_right.text))
    /\ spc' = "split"
    /\ UNCHANGED <<s_arr, s_left, s_right, s_outer, s_text_left, s_text_right,
                   s_length_threshold>>

SplitNext ==
    (GetOuterPositions \/ SplitCombinedText)
    /\ UNCHANGED <<headingVars, matcherVars, differVars, compareVars, jobVars, recordVars, mergeVars, tryVars, paraVars>>

(***************************************************************************)
(* The merge phase on its own: TextMatcher.update_try_merge on two lists   *)
(***************************************************************************)
\* texts of the units of the two documents
MergeTextsLeft == { <<"a">>, <<"b">>, <<"c">> }
MergeTextsRight == { <<"a", "b">>, <<"a", " ", "b">>, <<"c">> }
MergeThresholds == {30}

NoMerge == [raised |-> FALSE, texts_left |-> <<>>, texts_right |-> <<>>, merges |-> <<>>]

TryIdle ==
    /\ tpc = "idle"
    /\ t_left = <<>>
    /\ t_right = <<>>
    /\ t_swapped = FALSE
    /\ t_threshold = 0
    /\ t_result = NoMerge

\* self.texts_left, self.texts_right and self.ratio_threshold when
\* update_try_merge starts; either document may be the one with more units
TryInit ==
    /\ tpc = "new"
    /\ t_swapped \in BOOLEAN
    /\ \E many \in { MakeParagraphs(t) : t \in SeqsUpTo(MergeTextsLeft, MaxMergeUnits) } :
       \E few \in { MakeParagraphs(t) : t \in SeqsUpTo(MergeTextsRight, MaxPartners) } :
          /\ t_left = IF t_swapped THEN few ELSE many
          /\ t_right = IF t_swapped THEN many ELSE few
    /\ t_threshold \in { t * ScoreUnit : t \in MergeThresholds }
    /\ t_result = NoMerge

\* TextMatcher.update_try_merge
UpdateTryMerge ==
    /\ tpc = "new"
    /\ \E r \in update_try_merge(t_left, t_right, t_threshold) :
          /\ t_result' = r
          /\ tpc' = IF r.raised THEN "raised" ELSE "merged"
    /\ UNCHANGED <<t_left, t_right, t_swapped, t_threshold>>

TryNext ==
    UpdateTryMerge
    /\ UNCHANGED <<headingVars, matcherVars, differVars, compareVars, jobVars, recordVars, mergeVars, splitVars, paraVars>>

(***************************************************************************)
(* ParagraphMerger.merge_paragraphs: the loop over the two stacks of units *)
(***************************************************************************)
\* A unit is its key <<payload["para_pos"], payload["sent_pos"]>>; a merged
\* unit is the sequence of the units whose texts _join_paragraphs joined.

\* the keys of n units in document order
RECURSIVE KeyLists(_)
KeyLists(n) ==
    IF n = 0 THEN { <<>> }
    ELSE IF n = 1 THEN { << <<0, 0>> >> }
    ELSE UNION { { Append(ks, <<ks[n - 1][1], ks[n - 1][2] + 1>>),
                   Append(ks, <<ks[n - 1][1] + 1, 0>>) } : ks \in KeyLists(n - 1) }

\* the one-to-one matchings between nl left and nr right units, as index pairs
Matchings(nl, nr) ==
    { m \in SUBSET ((1..nl) \X (1..nr)) :
        \A a \in m : \A b \in m : (a[1] = b[1]) <=> (a[2] = b[2]) }

\* list.insert(i, x)
PyInsert(s, i, x) ==
    SubSeq(s, 1, IF i < 0 THEN Max({0, Len(s) + i}) ELSE Min({i, Len(s)}))
    \o <<x>>
    \o SubSeq(s, (IF i < 0 THEN Max({0, Len(s) + i}) ELSE Min({i, Len(s)})) + 1, Len(s))

\* the two lookup maps of the matched pairs
make_lookup_map_for_matches(matched_paragraphs) ==
    [left_lookup_map |->
        [k \in { p[1] : p \in matched_paragraphs } |->
            (CHOOSE p \in matched_paragraphs : p[1] = k)[2]],
     right_lookup_map |->
        [k \in { p[2] : p \in matched_paragraphs } |->
            (CHOOSE p \in matched_paragraphs : p[2] = k)[1]]]

\* _find_match_for_left_para and _find_match_for_right_para: dict.get
find_match_for_para(para, lookup_map) ==
    IF para = <<>> THEN <<>>
    ELSE IF para[1] \in DOMAIN lookup_map THEN <<lookup_map[para[1]]>>
    ELSE <<>>

is_direct_match(right_para, matched_right_para) ==
    /\ right_para # <<>>
    /\ matched_right_para # <<>>
    /\ matched_right_para[1][1] = right_para[1][1]
    /\ matched_right_para[1][2] = right_para[1][2]

is_same_paragraph_position(left_para, right_para, current_para_left, current_para_right) ==
    /\ left_para # <<>>
    /\ right_para # <<>>
    /\ current_para_left = left_para[1][1]
    /\ current_para_right = right_para[1][1]

flush_left(st) ==
    [st EXCEPT !.merged_paragraphs_left = Append(@, st.temp_paragraphs_left),
               !.temp_paragraphs_left = <<>>]

flush_right(st) ==
    [st EXCEPT !.merged_paragraphs_right = Append(@, st.temp_paragraphs_right),
               !.temp_paragraphs_right = <<>>]

FlushLeftIf(st, cond) ==
    IF st.temp_paragraphs_left # <<>> /\ cond THEN flush_left(st) ELSE st

FlushRightIf(st, cond) ==
    IF st.temp_paragraphs_right # <<>> /\ cond THEN flush_right(st) ELSE st

handle_direct_match_no_flush(st, left_para, right_para, same_para_pos) ==
    [st EXCEPT !.temp_paragraphs_left = Append(@, left_para),
               !.temp_paragraphs_right = Append(@, right_para),
               !.sign_left = TRUE,
               !.sign_right = TRUE]

handle_direct_match(st, left_para, right_para, same_para_pos) ==
    [FlushRightIf(FlushLeftIf(st, ~(same_para_pos /\ st.sign_left)),
                  ~(same_para_pos /\ st.sign_left))
        EXCEPT !.temp_paragraphs_left = Append(@, left_para),
               !.temp_paragraphs_right = Append(@, right_para),
               !.sign_left = TRUE,
               !.sign_right = TRUE]

\* _index_paragraph: None stands for the ValueError
index_paragraph(stack, matched_para) ==
    IF \E k \in 1..Len(stack) : stack[k] = matched_para
    THEN Max({ k \in 1..Len(stack) : stack[k] = matched_para }) - 1
    ELSE None

CrossInsert(left_stack, right_stack, left_para, right_para, left_index, right_index) ==
    IF left_index >= right_index
    THEN [left_stack |-> IF left_index < 0
                         THEN PyInsert(left_stack, left_index, left_para)
                         ELSE Append(left_stack, left_para),
          right_stack |-> IF right_index + 1 < 0
                          THEN PyInsert(right_stack, right_index + 1, right_para)
                          ELSE Append(right_stack, right_para)]
    ELSE [right_stack |-> IF right_index < 1
                          THEN PyInsert(right_stack, right_index, right_para)
                          ELSE Append(right_stack, right_para),
          left_stack |-> IF left_index + 1 < 0
                         THEN PyInsert(left_stack, left_index + 1, left_para)
                         ELSE Append(left_stack, left_para)]

cross_insert_stack(st, left_para, right_para, matched_left_para, matched_right_para) ==
    IF \/ index_paragraph(st.right_texts_stack, matched_right_para) = None
       \/ index_paragraph(st.left_texts_stack, matched_left_para) = None
    THEN [st EXCEPT !.raised = TRUE]
    ELSE [st EXCEPT
            !.left_texts_stack =
                CrossInsert(st.left_texts_stack, st.right_texts_stack, left_para, right_para,
                    index_paragraph(st.right_texts_stack, matched_right_para)
                        - Len(st.left_texts_stack),
                    index_paragraph(st.left_texts_stack, matched_left_para)
                        - Len(st.right_texts_stack)).left_stack,
            !.right_texts_stack =
                CrossInsert(st.left_texts_stack, st.right_texts_stack, left_para, right_para,
                    index_paragraph(st.right_texts_stack, matched_right_para)
                        - Len(st.left_texts_stack),
                    index_paragraph(st.left_texts_stack, matched_left_para)
                        - Len(st.right_texts_stack)).right_stack]

AfterCrossInsert(st) ==
    IF st.raised THEN st ELSE FlushRightIf(FlushLeftIf(st, TRUE), TRUE)

handle_cross_match(st, left_para, right_para, match_left_para, match_right_para) ==
    AfterCrossInsert(cross_insert_stack(st, left_para, right_para,
                                        match_left_para, match_right_para))

handle_left_match(st, left_para, right_para) ==
    [FlushRightIf([st EXCEPT !.left_texts_stack = Append(@, left_para)], st.sign_right)
        EXCEPT !.temp_paragraphs_right = Append(@, right_para)]

handle_right_match(st, left_para, right_para) ==
    [FlushLeftIf([st EXCEPT !.right_texts_stack = Append(@, right_para)], st.sign_left)
        EXCEPT !.temp_paragraphs_left = Append(@, left_para)]

handle_no_match(st, left_para, right_para) ==
    [FlushRightIf(FlushLeftIf(st, st.sign_left), st.sign_right)
        EXCEPT !.temp_paragraphs_left = @ \o left_para,
               !.temp_paragraphs_right = @ \o right_para]

\* which rule of _process_paragraph_pair applies
PairKind(left_para, right_para, matched_left_para, matched_right_para) ==
    IF left_para # <<>> /\ right_para # <<>> /\ is_direct_match(right_para, matched_right_para)
    THEN "direct"
    ELSE IF /\ left_para # <<>> /\ matched_left_para # <<>>
            /\ right_para # <<>> /\ matched_right_para # <<>>
    THEN "cross"
    ELSE IF left_para # <<>> /\ right_para # <<>> /\ matched_right_para # <<>>
    THEN "left"
    ELSE IF left_para # <<>> /\ right_para # <<>> /\ matched_left_para # <<>>
    THEN "right"
    ELSE "none"

SignsOff(st) == [st EXCEPT !.sign_left = FALSE, !.sign_right = FALSE]

\* the current paragraph positions, updated before the rules apply
WithCurrent(st, left_para, right_para) ==
    [st EXCEPT !.current_para_left = IF left_para # <<>> THEN left_para[1][1] ELSE @,
               !.current_para_right = IF right_para # <<>> THEN right_para[1][1] ELSE @]

Handle(kind, st, left_para, right_para, matched_left_para, matched_right_para, same_para_pos) ==
    CASE kind = "direct" -> handle_direct_match(st, left_para[1], right_para[1], same_para_pos)
      [] kind = "cross" -> handle_cross_match(st, left_para[1], right_para[1],
                                              matched_left_para[1], matched_right_para[1])
      [] kind = "left" -> SignsOff(handle_left_match(st, left_para[1], right_para[1]))
      [] kind = "right" -> SignsOff(handle_right_match(st, left_para[1], right_para[1]))
      [] OTHER -> SignsOff(handle_no_match(st, left_para, right_para))

\* _process_paragraph_pair; st holds the stacks after the two pops.  The
\* result of _find_match_for_right_para(right_para) is called
\* matched_left_para in the code, and the other way round.
process_paragraph_pair(st, left_para, right_para, left_lookup_map, right_lookup_map) ==
    Handle(PairKind(left_para, right_para,
                    find_match_for_para(right_para, right_lookup_map),
                    find_match_for_para(left_para, left_lookup_map)),
           WithCurrent(st, left_para, right_para),
           left_para, right_para,
           find_match_for_para(right_para, right_lookup_map),
           find_match_for_para(left_para, left_lookup_map),
           is_same_paragraph_position(left_para, right_para,
                                      st.current_para_left, st.current_para_right))

\* list.pop() if the stack is not empty, else None
PopOf(stack) == IF stack = <<>> THEN <<>> ELSE <<stack[Len(stack)]>>
Popped(stack) == IF stack = <<>> THEN <<>> ELSE SubSeq(stack, 1, Len(stack) - 1)

AfterPops(st) ==
    [st EXCEPT !.left_texts_stack = Popped(@), !.right_texts_stack = Popped(@)]

Reversed(s) == [k \in 1..Len(s) |-> s[Len(s) + 1 - k]]

\* the fields of a fresh ParagraphMerger and the two stacks
NewMerger(texts_left, texts_right) ==
    [merged_paragraphs_left |-> <<>>, merged_paragraphs_right |-> <<>>,
     temp_paragraphs_left |-> <<>>, temp_paragraphs_right |-> <<>>,
     current_para_left |-> -1, current_para_right |-> -1,
     sign_left |-> TRUE, sign_right |-> TRUE,
     left_texts_stack |-> Reversed(texts_left),
     right_texts_stack |-> Reversed(texts_right),
     raised |-> FALSE]

\* what the rest of the loop depends on: everything but the merged lists
LoopState(st) ==
    [st EXCEPT !.merged_paragraphs_left = <<>>, !.merged_paragraphs_right = <<>>]

NoStep == <<>>

ParaIdle ==
    /\ ppc = "idle"
    /\ p_left = <<>>
    /\ p_right = <<>>
    /\ p_matched = {}
    /\ p_st = NewMerger(<<>>, <<>>)
    /\ p_last = NoStep
    /\ p_seen = {}

\* texts_left, texts_right and the matched pairs when the loop starts
ParaInit ==
    /\ ppc = "loop"
    /\ \E nl \in 0..MaxParaUnits : \E nr \in 0..MaxParaUnits :
       \E m \in Matchings(nl, nr) :
          /\ p_left \in KeyLists(nl)
          /\ p_right \in KeyLists(nr)
          /\ p_matched = { <<p_left[a[1]], p_right[a[2]]>> : a \in m }
    /\ p_st = NewMerger(p_left, p_right)
    /\ p_last = NoStep
    /\ p_seen = {}

StepRecord(kind, before, after, left_para, right_para, prev) ==
    [kind |-> kind, before |-> before, left_para |-> left_para, right_para |-> right_para,
     prev_kind |-> IF prev = NoStep THEN "start" ELSE prev[1].kind,
     prev_left |-> IF prev = NoStep THEN <<>> ELSE prev[1].left_para,
     prev_right |-> IF prev = NoStep THEN <<>> ELSE prev[1].right_para]

Iterate(st, left_para, right_para, maps) ==
    [kind |-> PairKind(left_para, right_para,
                       find_match_for_para(right_para, maps.right_lookup_map),
                       find_match_for_para(left_para, maps.left_lookup_map)),
     st |-> process_paragraph_pair(AfterPops(st), left_para, right_para,
                                   maps.left_lookup_map, maps.right_lookup_map)]

\* one iteration of the while loop of merge_paragraphs; "looping" when the
\* loop is back in a state it has been in
ProcessParagraphPair ==
    /\ ppc = "loop"
    /\ p_st.left_texts_stack # <<>> \/ p_st.right_texts_stack # <<>>
    /\ \E it \in { Iterate(p_st, PopOf(p_st.left_texts_stack), PopOf(p_st.right_texts_stack),
                           make_lookup_map_for_matches(p_matched)) } :
          /\ p_st' = it.st
          /\ p_last' = <<StepRecord(it.kind, p_st, it.st, PopOf(p_st.left_texts_stack),
                                    PopOf(p_st.right_texts_stack), p_last)>>
          /\ p_seen' = p_seen \cup {LoopState(p_st)}
          /\ ppc' = IF it.st.raised THEN "raised"
                    ELSE IF LoopState(it.st) \in p_seen \cup {LoopState(p_st)} THEN "looping"
                    ELSE "loop"
    /\ UNCHANGED <<p_left, p_right, p_matched>>

\* _finalize_merge_results and the return
FinalizeMergeResults ==
    /\ ppc = "loop"
    /\ p_st.left_texts_stack = <<>>
    /\ p_st.right_texts_stack = <<>>
    /\ p_st' = FlushRightIf(FlushLeftIf(p_st, TRUE), TRUE)
    /\ ppc' = "done"
    /\ UNCHANGED <<p_left, p_right, p_matched, p_last, p_seen>>

ParaNext ==
    (ProcessParagraphPair \/ FinalizeMergeResults)
    /\ UNCHANGED <<headingVars, matcherVars, differVars, compareVars, jobVars, recordVars, mergeVars, splitVars, tryVars>>

(***************************************************************************)
(* Specifications: one per component, the other components idle            *)
(***************************************************************************)
InitHeading == HeadingInit /\ MatcherIdle /\ DifferIdle /\ CompareIdle /\ JobIdle /\ RecordsIdle /\ MergeIdle /\ SplitIdle /\ TryIdle /\ ParaIdle
SpecHeading == InitHeading /\ [][HeadingNext]_vars

InitMatcher == MatcherInit /\ HeadingIdle /\ DifferIdle /\ CompareIdle /\ JobIdle /\ RecordsIdle /\ MergeIdle /\ SplitIdle /\ TryIdle /\ ParaIdle
SpecMatcher == InitMatcher /\ [][MatcherNext]_vars

InitDiffer == DifferInit /\ HeadingIdle /\ MatcherIdle /\ CompareIdle /\ JobIdle /\ RecordsIdle /\ MergeIdle /\ SplitIdle /\ TryIdle /\ ParaIdle
SpecDiffer == InitDiffer /\ [][DifferNext]_vars

InitCompare == CompareInit /\ HeadingIdle /\ MatcherIdle /\ DifferIdle /\ JobIdle /\ RecordsIdle /\ MergeIdle /\ SplitIdle /\ TryIdle /\ ParaIdle
SpecCompare == InitCompare /\ [][CompareNext]_vars

InitJob == JobInit /\ HeadingIdle /\ MatcherIdle /\ DifferIdle /\ CompareIdle /\ RecordsIdle /\ MergeIdle /\ SplitIdle /\ TryIdle /\ ParaIdle
SpecJob == InitJob /\ [][JobNext]_vars

InitRecords == RecordsInit /\ HeadingIdle /\ MatcherIdle /\ DifferIdle /\ CompareIdle /\ JobIdle /\ MergeIdle /\ SplitIdle /\ TryIdle /\ ParaIdle
SpecRecords == InitRecords /\ [][RecordsNext]_vars

InitMerge == MergeInit /\ HeadingIdle /\ MatcherIdle /\ DifferIdle /\ CompareIdle /\ JobIdle /\ RecordsIdle /\ SplitIdle /\ TryIdle /\ ParaIdle
SpecMerge == InitMerge /\ [][MergeNext]_vars

InitSplit == SplitInit /\ HeadingIdle /\ MatcherIdle /\ DifferIdle /\ CompareIdle /\ JobIdle /\ RecordsIdle /\ MergeIdle /\ TryIdle /\ ParaIdle
SpecSplit == InitSplit /\ [][SplitNext]_vars

InitTry == TryInit /\ HeadingIdle /\ MatcherIdle /\ DifferIdle /\ CompareIdle /\ JobIdle /\ RecordsIdle /\ MergeIdle /\ SplitIdle /\ ParaIdle
SpecTry == InitTry /\ [][TryNext]_vars

InitPara == ParaInit /\ HeadingIdle /\ MatcherIdle /\ DifferIdle /\ CompareIdle /\ JobIdle /\ RecordsIdle /\ MergeIdle /\ SplitIdle /\ TryIdle
SpecPara == InitPara /\ [][ParaNext]_vars

Values(path) == [i \in 1..Len(path) |-> path[i].value]

(***************************************************************************)
(* Properties of the optimal matcher                                       *)
(***************************************************************************)
SumScores(ms) == SumOver(1..Len(ms), [k \in 1..Len(ms) |-> ms[k].score])

\* every one-to-one set of (left, right) pairs, of any size
OneToOneSets(M) ==
    UNION { { { <<i, f[i]>> : i \in R } : f \in Injections(R, ColsOf(M)) } :
            R \in SUBSET RowsOf(M) }

AllAbove(M, S, thr) == \A p \in S : M.at[p] > thr

\* C1 (as claimed): the returned matches score at least as much, in sum, as
\* any one-to-one set of pairs that are all above the threshold.
C1_ReturnedSumIsOptimal ==
    mpc = "done"
    => \A S \in OneToOneSets(score_matrix) :
          AllAbove(score_matrix, S, m_threshold)
          => SumScores(optimal_matches) >= Total(score_matrix, S)

\* the assigned pairs the threshold filter discarded
Discarded ==
    { p \in row_col : \A k \in 1..Len(optimal_matches) :
                          <<optimal_matches[k].i, optimal_matches[k].j>> # p }

\* C1 (amended): the returned matches together with the assigned pairs the
\* filter discarded score at least as much, in sum, as any one-to-one set of
\* pairs; the returned matches are the assigned pairs above the threshold.
C1_AssignmentSumIsOptimal ==
    mpc = "done"
    => /\ \A S \in OneToOneSets(score_matrix) :
             SumScores(optimal_matches) + Total(score_matrix, Discarded)
                >= Total(score_matrix, S)
       /\ \A p \in Discarded : score_matrix.at[p] <= m_threshold

C1_Witness ==
    /\ mpc = "done"
    /\ Cardinality(row_col) = 2
    /\ Len(optimal_matches) = 1
    /\ Cardinality(Discarded) = 1

\* C2: every returned match has a score strictly above the threshold.
C2_MatchesAboveThreshold ==
    mpc = "done"
    => \A k \in 1..Len(optimal_matches) : optimal_matches[k].score > m_threshold

\* a match was returned while an assigned pair scoring exactly the threshold
\* was left out
C2_Witness ==
    /\ mpc = "done"
    /\ Len(optimal_matches) >= 1
    /\ \E p \in Discarded : score_matrix.at[p] = m_threshold

(***************************************************************************)
(* Properties of the change detection                                      *)
(***************************************************************************)
\* removal of exactly the junk characters the claim names
JunkCharsIntended == {"-", "_", "*", " "}
StripClaimedJunk(subtext) == SelectSeq(subtext, LAMBDA c : c \notin JunkCharsIntended)

\* the opcodes _get_report does not skip
ReportedOpcodes ==
    SelectSeq(get_edit_operations(d_left, d_right, {" "}),
              LAMBDA op : ~(Strip(Slice(d_left, op.i1, op.i2)) = <<>>
                            /\ Strip(Slice(d_right, op.j1, op.j2)) = <<>>))

ChangedAsClaimed(op) ==
    /\ op.tag # "equal"
    /\ StripClaimedJunk(Slice(d_left, op.i1, op.i2))
          # StripClaimedJunk(Slice(d_right, op.j1, op.j2))

\* C10 (as claimed): an opcode is changed iff its tag is not equal and its
\* sides differ once '-', '_', '*' and whitespace are removed, every other
\* character being significant; an unchanged opcode is reported as equal,
\* and the pair is changed iff one of its opcodes is.
C10_JunkInsensitiveChange ==
    dpc = "done"
    => /\ Len(d_report) = Len(ReportedOpcodes)
       /\ \A n \in 1..Len(ReportedOpcodes) :
             d_report[n].tag = IF ChangedAsClaimed(ReportedOpcodes[n])
                               THEN ReportedOpcodes[n].tag ELSE "equal"
       /\ d_changed = (\E n \in 1..Len(ReportedOpcodes) :
                          ChangedAsClaimed(ReportedOpcodes[n]))

(***************************************************************************)
(* Properties of generate_comparison                                       *)
(***************************************************************************)
Returned == cpc = "done"
Ended == cpc \in {"done", "raised"}

\* no pair of given units scores above the threshold; an empty side is the
\* case with no pair at all
NoPairAboveThreshold ==
    \A i \in 1..Len(given_left), j \in 1..Len(given_right) :
        fuzz_ratio(given_left[i].text, given_right[j].text) <= self_ratio_threshold

RecordsOfType(type) == SelectSeq(comparison_obj, LAMBDA item : item.type = type)

\* C3 (as claimed): when one input list is empty, or no pair scores above
\* the threshold, generate_comparison does not raise and returns exactly one
\* 'removed' record per left unit and one 'new' record per right unit.
C3_EmptySideTolerated ==
    (Ended /\ NoPairAboveThreshold)
    => /\ Returned
       /\ Len(comparison_obj) = Len(given_left) + Len(given_right)
       /\ [k \in 1..Len(given_left) |-> given_left[k].text]
            = [k \in 1..Len(given_left) |-> RecordsOfType("removed")[k].text_left]
       /\ [k \in 1..Len(given_right) |-> given_right[k].text]
            = [k \in 1..Len(given_right) |-> RecordsOfType("new")[k].text_right]

\* C4 (as claimed): one left unit and one right unit with the same text, at
\* ratio threshold 0.5, give exactly one record, of type "equal" and ratio 1.0.
C4_IdenticalTextIsEqual ==
    (/\ Ended
     /\ Len(given_left) = 1 /\ Len(given_right) = 1
     /\ given_left[1].text = given_right[1].text
     /\ NotBlank(given_left[1])
     /\ self_ratio_threshold = 50 * ScoreUnit)
    => /\ Returned
       /\ Len(comparison_obj) = 1
       /\ comparison_obj[1].type = "equal"
       /\ comparison_obj[1].ratio = ScoreUnit

\* the characters of the texts that are not whitespace, counted per character
RECURSIVE Concat(_)
Concat(texts) == IF texts = <<>> THEN <<>> ELSE Head(texts) \o Concat(Tail(texts))

Content(texts) == SelectSeq(Concat(texts), LAMBDA c : ~IsSpace(c))

CountOf(c, text) == Cardinality({ k \in 1..Len(text) : text[k] = c })

Chars(text) == { text[k] : k \in 1..Len(text) }

SameContent(a, b) ==
    \A c \in Chars(Content(a)) \cup Chars(Content(b)) :
        CountOf(c, Content(a)) = CountOf(c, Content(b))

\* C5 (as claimed): for all inputs the call hands back records whose left
\* texts hold the non-whitespace content of the left input units, nothing
\* lost and nothing duplicated, and likewise on the right.
C5_ContentConserved ==
    Ended
    => /\ Returned
       /\ SameContent([k \in 1..Len(given_left) |-> given_left[k].text],
                      [k \in 1..Len(comparison_obj) |-> comparison_obj[k].text_left])
       /\ SameContent([k \in 1..Len(given_right) |-> given_right[k].text],
                      [k \in 1..Len(comparison_obj) |-> comparison_obj[k].text_right])

(***************************************************************************)
(* Properties of the heading path resolver                                 *)
(***************************************************************************)
NoiseValue == <<"x">>

IsDottedNumber(v) ==
    /\ v # <<>>
    /\ \A i \in 1..Len(v) : IsDigit(v[i]) \/ v[i] = "."

StrictlyIncreasingByKey(seq) ==
    \A i \in 1..(Len(seq) - 1) : KeyLess(compare_fct(seq[i]), compare_fct(seq[i + 1]))

StrictlyIncreasingAsStr(seq) ==
    \A i \in 1..(Len(seq) - 1) : StrLess(seq[i], seq[i + 1])

WithoutNoise(seq) == SelectSeq(seq, LAMBDA v : v # NoiseValue)

\* the noise value stands once, strictly between elements of a sequence of
\* dotted numbers
NoiseBetween(seq) ==
    /\ Len(seq) >= 3
    /\ Cardinality({ i \in 1..Len(seq) : seq[i] = NoiseValue }) = 1
    /\ seq[1] # NoiseValue /\ seq[Len(seq)] # NoiseValue
    /\ \A i \in 1..Len(seq) : seq[i] = NoiseValue \/ IsDottedNumber(seq[i])

NoisePos(seq) == CHOOSE i \in 1..Len(seq) : seq[i] = NoiseValue

\* every root-to-sink path find_paths enumerates, over all roots
AllPaths ==
    UNION { { find_paths(graph, root_elements[r], <<>>, <<>>)[k] :
                k \in 1..Len(find_paths(graph, root_elements[r], <<>>, <<>>)) } :
            r \in 1..Len(root_elements) }

\* C6 (as claimed): every strictly increasing sequence of dotted numbers (two
\* elements or more) comes back whole and in order as the best path.
C6_IncreasingReturnsFull ==
    ( /\ hpc = "resolved"
      /\ Len(sequence) >= 2
      /\ \A i \in 1..Len(sequence) : IsDottedNumber(sequence[i])
      /\ StrictlyIncreasingByKey(sequence) )
    => Values(best_path) = sequence

AllEqual(seq) == \A i, j \in 1..Len(seq) : seq[i] = seq[j]

\* C9: the empty sequence, a one-element sequence and a sequence of equal
\* values resolve to a path of length 0.
C9_DegenerateGivesEmptyPath ==
    (hpc = "resolved" /\ (Len(sequence) <= 1 \/ AllEqual(sequence)))
    => Len(best_path) = 0

C9_Witness ==
    /\ hpc = "resolved"
    /\ Len(sequence) = 3
    /\ AllEqual(sequence)
    /\ best_path = <<>>

\* the comparison key of the heading at a position, and its order
KeyAt(i) == compare_fct(sequence[i + 1])
KeyLarger(i, j) == KeyLess(KeyAt(i), KeyAt(j))

Built == hpc \in {"built", "resolved"}
Expanded == { expansions[k] : k \in 1..Len(expansions) }
Later(i) == (i + 1)..(Len(sequence) - 1)

\* the positions of the successors recorded for position i
SuccessorsOf(i) ==
    IF i \in DOMAIN graph THEN [t \in 1..Len(graph[i]) |-> graph[i][t].position] ELSE <<>>

\* C16: larger and between are decided by the numeric key: an expanded
\* element has successors exactly when a later heading has a larger key, each
\* successor has a larger key than the element, and each successor after the
\* first has a smaller key than the successor before it.
C16_ComparesByKey ==
    Built =>
        \A i \in Expanded :
            /\ (SuccessorsOf(i) # <<>>) <=> (\E j \in Later(i) : KeyLarger(i, j))
            /\ \A t \in 1..Len(SuccessorsOf(i)) :
                  /\ KeyLarger(i, SuccessorsOf(i)[t])
                  /\ t > 1 => KeyLarger(SuccessorsOf(i)[t], SuccessorsOf(i)[t - 1])

\* position j holds a larger heading than position i: by the numeric key,
\* or by the order of the value strings
LargerBy(by_key, i, j) ==
    IF by_key THEN KeyLarger(i, j) ELSE StrLess(sequence[i + 1], sequence[j + 1])

\* the staircase of position i under an order: the nearest later position
\* that is larger, then repeatedly the nearest position after the last one
\* that lies strictly between position i and the last one
RECURSIVE StairsFrom(_, _, _, _)
StairsFrom(i, last, stairs, by_key) ==
    LET next == { j \in (last + 1)..(Len(sequence) - 1) :
                    LargerBy(by_key, i, j) /\ (stairs # <<>> => LargerBy(by_key, j, last)) }
    IN  IF next = {} THEN stairs
        ELSE StairsFrom(i, Min(next), Append(stairs, Min(next)), by_key)

\* C17: the successor list of an expanded element is exactly its staircase
\* under the heading order (the numeric key), empty when no later heading is
\* larger.
C17_SuccessorsAreStaircase ==
    Built => \A i \in Expanded : SuccessorsOf(i) = StairsFrom(i, i, <<>>, TRUE)

\* the same with the order of the value strings, which the construction uses
SuccessorsAreStaircaseByValue ==
    Built => \A i \in Expanded : SuccessorsOf(i) = StairsFrom(i, i, <<>>, FALSE)

NoDuplicates(seq) == \A k, h \in 1..Len(seq) : k # h => seq[k] # seq[h]

\* C18: when the graph of a sequence is built, every element was expanded at
\* most once and find_larger_neighbours was never nested deeper than the
\* sequence is long.
C18_ExpandedOnceDepthBounded ==
    Built => /\ NoDuplicates(expansions)
             /\ Expanded \subseteq 0..(Len(sequence) - 1)
             /\ max_depth <= Len(sequence)

C18_Witness ==
    /\ hpc = "built"
    /\ sequence = << <<"1">>, <<"1", ".", "1">>, <<"1", ".", "1">>, <<"1", ".", "1">> >>
    /\ Len(expansions) = 4
    /\ max_depth >= 2

(***************************************************************************)
(* Properties of the comparison job                                        *)
(***************************************************************************)
\* the job ended and nothing but writes to the progress store raised
OnlyProgressWritesRaised ==
    /\ jpc = "ended"
    /\ raised_by # {}
    /\ raised_by \subseteq {"notify", "cache_progress"}

\* C11: when the progress store raises while a notification is written, the
\* job still ends with its result stored and without an exception leaving it.
C11_NotifyFailureSwallowed ==
    OnlyProgressWritesRaised => (result_key = <<"records">> /\ ~escaped)

\* the comparison itself raised inside run_comparison_task
ComparisonRaised == "core" \in raised_by

\* what holds from the raise on: nothing stored, never completed, one run
NothingRetained ==
    /\ result_key = <<>>
    /\ get_task_result = "not available"
    /\ last_answer # "result"
    /\ status_key # <<"completed">>
    /\ runs = 1

C13_ProgressMonotone ==
    /\ \A i \in 1..Len(written) : written[i] >= 0 /\ written[i] <= 100
    /\ \A i, j \in 1..Len(written) : i < j => written[i] <= written[j]

\* the number of times the split phase was entered
SplitRuns == Cardinality({ k \in 1..Len(phases) : phases[k] = "split" })

\* the first "merge" or "match" entry of the phases, Len + 1 when there is none
FirstLater ==
    Min({ k \in 1..Len(phases) : phases[k] \in {"merge", "match"} } \cup {Len(phases) + 1})

Matched(rec) == rec.type \in {"same", "changed"}

\* the records that carry the left unit at index i / the right unit at index j
RecordsOfLeft(i) ==
    { k \in 1..Len(final_records) :
        \/ Matched(final_records[k]) /\ final_records[k].position = i
        \/ /\ final_records[k].type = "removed"
           /\ final_records[k].position = i
           /\ final_records[k].text_left_id = final_left[i + 1].id
           /\ final_records[k].text_left = final_left[i + 1].text }

RecordsOfRight(j) ==
    { k \in 1..Len(final_records) :
        \/ Matched(final_records[k]) /\ final_records[k].position_secondary = j
        \/ /\ final_records[k].type = "new"
           /\ final_records[k].text_right_id = final_right[j + 1].id
           /\ final_records[k].text_right = final_right[j + 1].text }

\* C14: every unit of the reconciled left list is carried by exactly one
\* record (a match or a "removed" record), every unit of the reconciled right
\* list by exactly one record (a match or a "new" record), every record
\* carries a unit, and no index is used by two matches.
C14_NoDoubleCounting ==
    rpc = "done" =>
        /\ \A i \in 0..(Len(final_left) - 1) : Cardinality(RecordsOfLeft(i)) = 1
        /\ \A j \in 0..(Len(final_right) - 1) : Cardinality(RecordsOfRight(j)) = 1
        /\ \A k \in 1..Len(final_records) :
              \/ \E i \in 0..(Len(final_left) - 1) : k \in RecordsOfLeft(i)
              \/ \E j \in 0..(Len(final_right) - 1) : k \in RecordsOfRight(j)
        /\ \A k, h \in 1..Len(final_records) :
              (k # h /\ Matched(final_records[k]) /\ Matched(final_records[h]))
              => /\ final_records[k].position # final_records[h].position
                 /\ final_records[k].position_secondary
                        # final_records[h].position_secondary

C14_Witness ==
    /\ rpc = "done"
    /\ Len(final_left) = 2
    /\ Len(final_right) = 2
    /\ \E k \in 1..Len(final_records) : final_records[k].type = "changed"
    /\ \E k \in 1..Len(final_records) : final_records[k].type = "removed"
    /\ \E k \in 1..Len(final_records) : final_records[k].type = "new"

(***************************************************************************)
(* Properties of the record merge strategies                               *)
(***************************************************************************)
\* the types a predicate accepts
ConditionTypes(condition) ==
    IF condition = "matched_condition" THEN {"equal", "changed"} ELSE {"removed", "new"}

\* the ids of two records agree on every side present in both
IdsAgree(prev, cur) ==
    \A side \in {"left", "right"} :
        (OrigOf(prev, side) # NoParagraph /\ OrigOf(cur, side) # NoParagraph)
        => OrigOf(prev, side)[1].id = OrigOf(cur, side)[1].id

\* two consecutive records belong to the same run under a predicate
SameRun(condition, prev, cur) ==
    /\ cur.type = prev.type
    /\ cur.type \in ConditionTypes(condition)
    /\ condition # "unmatched_condition_no_id" => IdsAgree(prev, cur)

\* the 1-based indices at which a run starts
RunStarts(matches, condition) ==
    { k \in 1..Len(matches) : k = 1 \/ ~SameRun(condition, matches[k - 1], matches[k]) }

\* the r-th run of the given records
RunOf(matches, starts, r) ==
    SubSeq(matches, SortedSeq(starts)[r],
           Min({ k - 1 : k \in { s \in starts : s > SortedSeq(starts)[r] } }
               \cup {Len(matches)}))

\* the texts a run has on one side, in order
SideTexts(run, side) ==
    LET kept == SelectSeq(run, LAMBDA m : OrigOf(m, side) # NoParagraph)
    IN  [k \in 1..Len(kept) |-> OrigOf(kept[k], side)[1].text]

\* an output record carries its run
CarriesRun(record, run) ==
    /\ record.ratio = run[1].ratio
    /\ record.type = run[1].type
    /\ record.position = run[1].position
    /\ record.position_secondary = run[1].position_secondary
    /\ \A side \in {"left", "right"} :
          IF SideTexts(run, side) = <<>> THEN OrigOf(record, side) = NoParagraph
          ELSE /\ OrigOf(record, side) # NoParagraph
               /\ OrigOf(record, side)[1].text = JoinTexts(SideTexts(run, side))
    /\ Len(run) = 1 => record = run[1]

\* C19: merge_matches_on_condition returns one record per run, in order,
\* where two consecutive records are in the same run iff they have the same
\* type, the type is in the predicate's set and, for the id-aware predicates,
\* the ids agree on every side present in both; the record of a run has the
\* space-joined texts of the run, None for a side the whole run lacks, and
\* the ratio, type and positions of the run's first record; a record alone in
\* its run is returned unchanged.
C19_RunsMerged ==
    gpc = "merged" =>
        /\ Len(g_merged) = Cardinality(RunStarts(g_matches, g_condition))
        /\ \A r \in 1..Len(g_merged) :
              CarriesRun(g_merged[r],
                         RunOf(g_matches, RunStarts(g_matches, g_condition), r))

\* three "changed" records, the first two with the same ids and the third
\* with other ids, merged by matched_condition into two records
C19_Witness ==
    /\ gpc = "merged"
    /\ g_condition = "matched_condition"
    /\ Len(g_matches) = 3
    /\ \A k \in 1..3 : g_matches[k].type = "changed"
    /\ Len(g_merged) = 2
    /\ Len(g_merged[1].paragraph_left[1].text) = 3

\* the characters other than spaces that a list of records has on one side
SideContent(pairs, side) ==
    SelectSeq(JoinTexts(SideTexts(pairs, side)), LAMBDA c : c # " ")

\* C20: in every pass of join_optimize_paragraph_matches the records removed
\* from the list are exactly the orphans whose text was concatenated into a
\* neighbouring record, so the side keeps all its text in order; a pass that
\* removes nothing leaves the list as it was.
C20_RemovedIffConcatenated ==
    gpc = "joined" =>
        \A h \in 1..Len(g_passes) :
            /\ g_passes[h].deleted = g_passes[h].joined_at
            /\ SideContent(g_passes[h].after, g_passes[h].side)
                   = SideContent(g_passes[h].before, g_passes[h].side)
            /\ g_passes[h].deleted = {} => g_passes[h].after = g_passes[h].before

(***************************************************************************)
(* Properties of the split at sentence boundaries                          *)
(***************************************************************************)
Boundaries(arr) == { arr[k] : k \in 1..Len(arr) }

SplitCutsInside ==
    /\ spc = "split"
    /\ \E c \in s_split.cuts_left : 0 < c /\ c < Len(s_text_left.text)

\* the segments are slices of the parent in text order that neither overlap
\* nor leave a gap: their characters other than spaces, one segment after the
\* other, are those of the parent; each segment has the parent's id and payload
SlicesOf(segments, parent) ==
    /\ Content([k \in 1..Len(segments) |-> segments[k].text]) = Content(<<parent.text>>)
    /\ \A k \in 1..Len(segments) :
          segments[k].id = parent.id /\ segments[k].payload = parent.payload

C23_MergeImproves ==
    tpc = "merged" =>
        \A k \in 1..Len(t_result.merges) :
            fuzz_ratio(t_result.merges[k].after, t_result.merges[k].partner)
                > fuzz_ratio(t_result.merges[k].before, t_result.merges[k].partner)

\* the texts of a list of units, one after the other, without the spaces
UnitsContent(texts) == Content([k \in 1..Len(texts) |-> texts[k].text])

\* C28: the merge phase keeps the document order: the texts of the list it
\* leaves, read in order, are the texts of the list it was given, in order,
\* on both sides.
C28_OrderKept ==
    tpc = "merged" =>
        /\ UnitsContent(t_result.texts_left) = UnitsContent(t_left)
        /\ UnitsContent(t_result.texts_right) = UnitsContent(t_right)

(***************************************************************************)
(* Properties of ParagraphMerger                                           *)
(***************************************************************************)
\* the last iteration took the direct-match rule
LastIsDirect ==
    /\ ppc \in {"loop", "looping"}
    /\ p_last # NoStep
    /\ p_last[1].kind = "direct"

\* C24 as stated: a direct-match step appends the two units to the run
\* buffers and leaves merged_paragraphs_left and merged_paragraphs_right
\* unchanged.
C24_DirectMatchKeepsMerged ==
    LastIsDirect =>
        /\ p_st.merged_paragraphs_left = p_last[1].before.merged_paragraphs_left
        /\ p_st.merged_paragraphs_right = p_last[1].before.merged_paragraphs_right
        /\ p_st.temp_paragraphs_left
              = Append(p_last[1].before.temp_paragraphs_left, p_last[1].left_para[1])
        /\ p_st.temp_paragraphs_right
              = Append(p_last[1].before.temp_paragraphs_right, p_last[1].right_para[1])

\* the direct match follows a direct match of units of the same paragraph on
\* each side
ContinuesRun ==
    /\ LastIsDirect
    /\ p_last[1].prev_kind = "direct"
    /\ p_last[1].left_para[1][1] = p_last[1].prev_left[1][1]
    /\ p_last[1].right_para[1][1] = p_last[1].prev_right[1][1]

\* a buffer flushed into a merged list, if there is anything in it
FlushedInto(merged, temp) == IF temp = <<>> THEN merged ELSE Append(merged, temp)

\* C24: a direct-match step that continues a run of direct matches inside one
\* paragraph on each side appends the two units to the run buffers and leaves
\* the merged lists unchanged; any other direct-match step first flushes each
\* non-empty buffer into its merged list and starts new buffers with the two
\* units.
C24_DirectMatchFlushesUnlessRun ==
    LastIsDirect =>
        IF ContinuesRun
        THEN /\ p_st.merged_paragraphs_left = p_last[1].before.merged_paragraphs_left
             /\ p_st.merged_paragraphs_right = p_last[1].before.merged_paragraphs_right
             /\ p_st.temp_paragraphs_left
                   = Append(p_last[1].before.temp_paragraphs_left, p_last[1].left_para[1])
             /\ p_st.temp_paragraphs_right
                   = Append(p_last[1].before.temp_paragraphs_right, p_last[1].right_para[1])
        ELSE /\ p_st.merged_paragraphs_left
                   = FlushedInto(p_last[1].before.merged_paragraphs_left,
                                 p_last[1].before.temp_paragraphs_left)
             /\ p_st.merged_paragraphs_right
                   = FlushedInto(p_last[1].before.merged_paragraphs_right,
                                 p_last[1].before.temp_paragraphs_right)
             /\ p_st.temp_paragraphs_left = p_last[1].left_para
             /\ p_st.temp_paragraphs_right = p_last[1].right_para

\* a run of three direct matches inside one paragraph is in the buffers
C24_Witness ==
    /\ ContinuesRun
    /\ Len(p_st.temp_paragraphs_left) = 3
    /\ Len(p_st.temp_paragraphs_right) = 3
    /\ p_st.merged_paragraphs_left = <<>>

\* C26: the loop of merge_paragraphs terminates (it never comes back to a
\* state it has been in), _index_paragraph never raises, and when
\* merge_paragraphs returns both stacks are empty and both run buffers are
\* flushed.
C26_MergeTerminates ==
    /\ ppc # "looping"
    /\ ppc # "raised"
    /\ ppc = "done" =>
          /\ p_st.left_texts_stack = <<>>
          /\ p_st.right_texts_stack = <<>>
          /\ p_st.temp_paragraphs_left = <<>>
          /\ p_st.temp_paragraphs_right = <<>>

(***************************************************************************)
(* Properties of the records of the final matching pass                    *)
(***************************************************************************)
Distance(a, b) == IF a < b THEN b - a ELSE a - b

\* the indices of the right units without a match, in the order of their
\* "new" records
NewIndices ==
    UnmatchedIndices(final_right, { final_matches[k].j : k \in 1..Len(final_matches) })

\* the "new" record of the k-th unmatched right unit
NewRecord(k) == final_records[Len(final_records) - Len(NewIndices) + k]

\* C25: every "new" record has the (position, position_secondary) of a
\* matched right unit closest to its own index, whether that unit comes
\* before or after it, and (0, 0) only when there is no match at all.
C25_NewNearClosestMatch ==
    rpc = "done" =>
        \A k \in 1..Len(NewIndices) :
            IF final_matches = <<>>
            THEN NewRecord(k).position = 0 /\ NewRecord(k).position_secondary = 0
            ELSE \E m \in 1..Len(final_matches) :
                    /\ NewRecord(k).position = final_matches[m].i
                    /\ NewRecord(k).position_secondary = final_matches[m].j
                    /\ \A n \in 1..Len(final_matches) :
                          Distance(final_matches[m].j, NewIndices[k])
                              <= Distance(final_matches[n].j, NewIndices[k])

\* C29: whenever a pass of join_optimize_paragraph_matches joins an orphan
\* into a neighbouring record, the ratio it gives that record is the record's
\* ratio before the join plus the improvement measured for that join, for the
\* previous record as for the next one.
C29_RatioConsistent ==
    gpc = "joined" =>
        \A h \in 1..Len(g_passes) :
            \A k \in 1..Len(g_passes[h].joins) :
                g_passes[h].joins[k].ratio_after
                    = g_passes[h].joins[k].ratio_before + g_passes[h].joins[k].ratio_diff

(***************************************************************************)
(* Properties of the task under polling                                    *)
(***************************************************************************)
\* C30: once a get_task_progress has answered with status "completed", every
\* get_task_result answers with the comparison, whatever the interleaving of
\* the requests with the task.
C30_CompletedImpliesResult ==
    /\ late_answer # "not available"
    /\ late_answer # "none" => get_task_result = "result"

\* a get_task_progress answered "completed" and a get_task_result after it
\* answered with the comparison
C30_Witness ==
    /\ late_answer = "result"
    /\ last_progress # <<>>
    /\ last_progress[1].status = "completed"
    /\ last_answer = "result"

(***************************************************************************)
(* Properties of the heading graph                                         *)
(***************************************************************************)
\* positions and values, under the comparison of find_larger and
\* find_smaller, strictly increase along the path
Increasing(path) ==
    \A k \in 1..(Len(path) - 1) :
        /\ path[k].position < path[k + 1].position
        /\ ValueGreater(path[k + 1], path[k])

AllIncreasing(paths) == \A k \in 1..Len(paths) : Increasing(paths[k])

\* C27: every edge of the graph of make_full_graph goes to a later position
\* and to a larger value under the comparison the graph is built with, and
\* every path of find_paths from a root and the path of
\* find_best_path_in_sequence has strictly increasing positions and values.
\* The graph is checked when GraphBuilder.__init__ returns; nothing changes it
\* afterwards.
C27_PathsMonotone ==
    /\ hpc = "built" =>
          /\ \A p \in DOMAIN graph :
                \A k \in 1..Len(graph[p]) :
                    /\ p < graph[p][k].position
                    /\ StrLess(sequence[p + 1], graph[p][k].value)
          /\ \A r \in 1..Len(root_elements) :
                AllIncreasing(find_paths(graph, root_elements[r], <<>>, <<>>))
    /\ hpc = "resolved" => Increasing(best_path)

\* an element with a staircase of two neighbours, and a best path over three
\* elements
C27_Witness ==
    /\ hpc = "resolved"
    /\ \E p \in DOMAIN graph : Len(graph[p]) >= 2
    /\ Len(best_path) >= 3
====
